---- MODULE Spec2Model ----
(***************************************************************************)
(* A model of the EPEX power-data downloader.                              *)
(*                                                                         *)
(*   Spec      the driver download() of                                    *)
(*             power_data_downloader_architecture.py, run repeatedly on    *)
(*             the same tracking file and archives;                        *)
(*   SpecData  the driver download_data() of power_data_architecture.py.   *)
(*                                                                         *)
(* Every cell of a table, a CSV row or a page is a string.  Python's None  *)
(* is the cell NULL, float("nan") is the cell NAN, a date object of day d  *)
(* is DateObj(d) and its ISO text is d itself.                             *)
(***************************************************************************)
EXTENDS Integers, Sequences, FiniteSets, TLC

-----------------------------------------------------------------------------
(* Bounds of the model. *)

\* datetime.now() is read at most MaxClock times in one behaviour: a run
\* starts only if all its combinations can be attempted below this cap.
MaxClock == 3

-----------------------------------------------------------------------------
(* Values. *)

NULL == "None"
NAN == "nan"

\* pandas isna() of one cell
IsNa(c) == c \in {NULL, NAN}

Days == {"2025-01-13", "2025-01-14"}

\* datetime.date of a day; str() of it is the ISO text again
DateObj(d) == "date:" \o d

\* a datetime value: a day and a time of day
DateTime(d, t) == [day |-> d, tod |-> t]

\* dt.strftime("%Y-%m-%d")
StrfTime(dt) == dt.day

\* dt.date(), pd.Timestamp(dt).date()
DateOf(dt) == DateObj(dt.day)

\* pd.Timestamp of a day at midnight, what read_excel returns for a date cell
Timestamp(d) == "ts:" \o d

\* pd.to_datetime(column).dt.date of one cell: an ISO text or a timestamp
\* becomes a date object
ToDate(s) ==
    IF s \in Days THEN DateObj(s)
    ELSE IF \E d \in Days : s = Timestamp(d)
         THEN DateObj(CHOOSE d \in Days : s = Timestamp(d))
         ELSE s

\* what to_csv writes for one cell: a date object as ISO text, a missing value
\* as the empty field
CsvCell(c) ==
    IF IsNa(c) THEN ""
    ELSE IF \E d \in Days : c = DateObj(d)
         THEN CHOOSE d \in Days : c = DateObj(d)
         ELSE c

\* what read_csv returns for one field: the empty field is NaN
CsvRead(s) == IF s = "" THEN NAN ELSE s

Range(s) == {s[i] : i \in 1..Len(s)}

Min(a, b) == IF a < b THEN a ELSE b

\* Python's "sub in s" on strings
In(sub, s) ==
    \E i \in 1..(Len(s) - Len(sub) + 1) : SubSeq(s, i, i + Len(sub) - 1) = sub

RECURSIVE Flatten(_)
Flatten(ss) == IF ss = <<>> THEN <<>> ELSE Head(ss) \o Flatten(Tail(ss))

\* s[::-1]
Reverse(s) == [i \in 1..Len(s) |-> s[Len(s) + 1 - i]]

RECURSIVE Strip(_)
\* str.strip() for blanks
Strip(s) ==
    IF Len(s) = 0 THEN s
    ELSE IF SubSeq(s, 1, 1) = " " THEN Strip(SubSeq(s, 2, Len(s)))
    ELSE IF SubSeq(s, Len(s), Len(s)) = " " THEN Strip(SubSeq(s, 1, Len(s) - 1))
    ELSE s

\* the result of a call that may raise
Raised == [exc |-> TRUE, val |-> <<>>]
RaisedText == [exc |-> TRUE, val |-> ""]
Returned(v) == [exc |-> FALSE, val |-> v]

\* a file: absent, or its rows
NoFile == [exists |-> FALSE, rows |-> <<>>]
File(rows) == [exists |-> TRUE, rows |-> rows]

-----------------------------------------------------------------------------
(* power_data_downloader_utils.py: the tracking ledger. *)

\* list.index(name) of a header row; 0 when absent
ColIndex(header, name) ==
    IF \E i \in 1..Len(header) : header[i] = name
    THEN CHOOSE i \in 1..Len(header) :
            header[i] = name /\ \A j \in 1..(i-1) : header[j] # name
    ELSE 0

RECURSIVE DropDuplicates(_)
\* DataFrame.drop_duplicates(): the first occurrence of every row, in order
DropDuplicates(rows) ==
    IF rows = <<>> THEN <<>>
    ELSE LET init == DropDuplicates(SubSeq(rows, 1, Len(rows) - 1))
             last == rows[Len(rows)]
         IN  IF last \in Range(init) THEN init ELSE Append(init, last)

RECURSIVE KeepColumns(_, _, _)
\* one row restricted to the columns of header named in columns_to_check
KeepColumns(header, row, columns_to_check) ==
    IF header = <<>> \/ row = <<>> THEN <<>>
    ELSE LET rest == KeepColumns(Tail(header), Tail(row), columns_to_check)
         IN  IF Head(header) \in Range(columns_to_check)
             THEN <<Head(row)>> \o rest
             ELSE rest

\* read_csv of a file: header and data rows, empty fields read as NaN
import_csv(file) ==
    [header |-> file.rows[1],
     data   |-> [i \in 1..(Len(file.rows) - 1) |->
                    [j \in 1..Len(file.rows[i + 1]) |-> CsvRead(file.rows[i + 1][j])]]]

\* one data row with the cells of the named column turned into dates
DateColumn(header, row, name) ==
    [j \in 1..Len(row) |-> IF j = ColIndex(header, name) THEN ToDate(row[j]) ELSE row[j]]

\* import_exsting_combinations_file with the conversion of DeliveryDate to
\* dates left out
import_exsting_combinations_file_undated(file, columns_to_check) ==
    LET df      == import_csv(file)
        si      == ColIndex(df.header, "SuccessIndicator")
        noerr   == SelectSeq(df.data, LAMBDA r : r[si] # "Error")
        kept    == [i \in 1..Len(noerr) |->
                       KeepColumns(df.header, noerr[i], columns_to_check)]
    IN  [header |-> KeepColumns(df.header, df.header, columns_to_check),
         data   |-> DropDuplicates(kept)]

\* import_exsting_combinations_file with every combination left out that has
\* a row whose SuccessIndicator is "Error"
import_exsting_combinations_file_any_error(file, columns_to_check) ==
    LET df      == import_csv(file)
        dated   == [i \in 1..Len(df.data) |->
                       DateColumn(df.header, df.data[i], "DeliveryDate")]
        si      == ColIndex(df.header, "SuccessIndicator")
        failed  == {KeepColumns(df.header, dated[i], columns_to_check) :
                       i \in {j \in 1..Len(dated) : dated[j][si] = "Error"}}
        noerr   == SelectSeq(dated, LAMBDA r :
                       KeepColumns(df.header, r, columns_to_check) \notin failed)
        kept    == [i \in 1..Len(noerr) |->
                       KeepColumns(df.header, noerr[i], columns_to_check)]
    IN  [header |-> KeepColumns(df.header, df.header, columns_to_check),
         data   |-> DropDuplicates(kept)]

\* import_exsting_combinations_file: the rows whose SuccessIndicator is not
\* "Error", restricted to columns_to_check, without duplicates
import_exsting_combinations_file(file, columns_to_check) ==
    LET df      == import_csv(file)
        dated   == [i \in 1..Len(df.data) |->
                       DateColumn(df.header, df.data[i], "DeliveryDate")]
        si      == ColIndex(df.header, "SuccessIndicator")
        noerr   == SelectSeq(dated, LAMBDA r : r[si] # "Error")
        kept    == [i \in 1..Len(noerr) |->
                       KeepColumns(df.header, noerr[i], columns_to_check)]
    IN  [header |-> KeepColumns(df.header, df.header, columns_to_check),
         data   |-> DropDuplicates(kept)]

\* check_existing_combinations: some row equals the combination in every column
check_existing_combinations(archive_df, combination) ==
    \E i \in 1..Len(archive_df.data) : archive_df.data[i] = combination

\* what csv.writer writes for one row: None as the empty field, any other
\* cell as its text
CsvWriterRow(row) == [j \in 1..Len(row) |-> IF row[j] = NULL THEN "" ELSE row[j]]

\* update_tracking_file, lines 601-625, for a file that is absent or has a
\* first row
update_tracking_file(file, tracking_data, header_row) ==
    IF file.exists
    THEN File(<<file.rows[1]>> \o <<CsvWriterRow(tracking_data)>> \o Tail(file.rows))
    ELSE File(<<CsvWriterRow(header_row), CsvWriterRow(tracking_data)>>)

\* a call of update_tracking_file: the assertion of line 597 and rows[0] of
\* line 607 raise, the latter for a file that exists and has no row
update_tracking_file_call(file, tracking_data, header_row) ==
    IF Len(tracking_data) # Len(header_row) THEN Raised
    ELSE IF file.exists /\ file.rows = <<>> THEN Raised
    ELSE Returned(update_tracking_file(file, tracking_data, header_row))

-----------------------------------------------------------------------------
(* power_data_downloader_utils.py: tables. *)

\* clean_df: the cells of the table with surrounding blanks removed
clean_df(df) == [i \in 1..Len(df) |-> [j \in 1..Len(df[i]) |-> Strip(df[i][j])]]

\* the widest row of a list of rows
MaxWidth(rows) ==
    IF rows = <<>> THEN 0
    ELSE CHOOSE w \in {Len(rows[i]) : i \in 1..Len(rows)} :
            \A i \in 1..Len(rows) : Len(rows[i]) <= w

\* pd.DataFrame(rows, columns=columns): raises unless the widest row has one
\* cell per column; shorter rows are filled up with missing values
DataFrame(rows, columns) ==
    IF rows = <<>> THEN Returned(<<>>)
    ELSE IF MaxWidth(rows) # Len(columns) THEN Raised
    ELSE Returned([i \in 1..Len(rows) |->
            [j \in 1..Len(columns) |->
                IF j <= Len(rows[i]) THEN rows[i][j] ELSE NULL]])

\* AppendToArchive writing the new table alone, the rows read back dropped
AppendToArchive_new_only(file, df, columns) ==
    File(<<columns>> \o [i \in 1..Len(df) |->
                [j \in 1..Len(df[i]) |-> CsvCell(df[i][j])]])

\* AppendToArchive with the first row of the new table only
AppendToArchive_first_row(file, df, columns) ==
    LET old == IF file.exists
               THEN LET a == import_csv(file)
                    IN  [i \in 1..Len(a.data) |->
                            DateColumn(a.header,
                                DateColumn(a.header, a.data[i], "TradingDate"),
                                "DeliveryDate")]
               ELSE <<>>
        all == old \o SubSeq(df, 1, 1)
    IN  File(<<columns>> \o [i \in 1..Len(all) |->
                [j \in 1..Len(all[i]) |-> CsvCell(all[i][j])]])

\* the archive read back (import_csv and the date conversions), the new table
\* appended (pd.concat) and the whole written again (to_csv)
AppendToArchive(file, df, columns) ==
    LET old == IF file.exists
               THEN LET a == import_csv(file)
                    IN  [i \in 1..Len(a.data) |->
                            DateColumn(a.header,
                                DateColumn(a.header, a.data[i], "TradingDate"),
                                "DeliveryDate")]
               ELSE <<>>
        all == old \o df
    IN  File(<<columns>> \o [i \in 1..Len(all) |->
                [j \in 1..Len(all[i]) |-> CsvCell(all[i][j])]])

-----------------------------------------------------------------------------
(* power_data_downloader_main.py: the parameters of a run of download(). *)

Types == {"dayahead", "intraday", "continuous",
          "aggregated_curves_dayahead", "aggregated_curves_intraday"}

trading_modality(t) == IF t = "continuous" THEN "Continuous" ELSE "Auction"

sub_modality(t) ==
    IF t \in {"dayahead", "aggregated_curves_dayahead"} THEN "DayAhead" ELSE "Intraday"

\* pairs (trading_date, delivery_date); the time of day is that of the run
DatePair(d1, d2, t) == <<DateTime(d1, t), DateTime(d2, t)>>

\* the lists date_combinations a run may be given
DateLists ==
    { <<DatePair("2025-01-13", "2025-01-14", "08:00")>>,
      <<DatePair("2025-01-13", "2025-01-14", "17:30"),
        DatePair("2025-01-14", "2025-01-14", "17:30")>>,
      <<DatePair("2025-01-13", "2025-01-14", "08:00"),
        DatePair("2025-01-13", "2025-01-14", "17:30")>> }

\* the dictionaries market_areas a run may be given, as lists of items
MarketAreaMaps(t) ==
    IF t \in {"dayahead", "aggregated_curves_dayahead"}
    THEN { <<[area |-> "GB_1", values |-> <<"GB DAA 1 (60')">>]>> }
    ELSE IF t = "continuous"
    THEN { <<[area |-> "DE", values |-> <<"60">>]>>,
           <<[area |-> "GB", values |-> <<"30">>]>> }
    ELSE IF t = "intraday"
    THEN { <<[area |-> "DE-LU", values |-> <<"SIDC IDA1">>]>>,
           <<[area |-> "DE-LU", values |-> <<"SIDC IDA1">>],
             [area |-> "CH", values |-> <<"CH-IDA1">>]>> }
    ELSE { <<[area |-> "DE-LU", values |-> <<"SIDC IDA1">>]>> }

-----------------------------------------------------------------------------
(* What the page fetcher and the extractors of
   power_data_downloader_utils.py may return for a page. *)

\* extract_last_update
LastUpdateResults ==
    { RaisedText, Returned(""), Returned("8 Jan"),
      Returned("13 January 2025 (10:33:43 CET/CEST)") }

\* hours_div.find_all("li", class_="child"), line 297
IsHourBlock(block) == block.tag = "li" /\ "child" \in Range(block.class)

\* the while condition of line 304: the walk ends at an element of class child
EndsSiblings(block) == "child" \in Range(block.class)

\* the branches of lines 305 and 309 only add the half-hour interval
AddsInterval_lvl1(block) == "lvl-1" \in Range(block.class)

\* the branches of lines 305 and 309: a sibling of class lvl-1 or lvl-2 adds
\* its label
AddsInterval(block) ==
    "lvl-1" \in Range(block.class) \/ "lvl-2" \in Range(block.class)

\* block.find("a").text.strip(); AttributeError when the block has no anchor
AnchorText(block) == IF block.a = NULL THEN Raised ELSE Returned(<<Strip(block.a)>>)

\* r1 followed by r2, both lists of labels, unless one of them raised
ThenLabels(r1, r2) ==
    IF r1.exc \/ r2.exc THEN Raised ELSE Returned(r1.val \o r2.val)

RECURSIVE next_sibling(_, _)
\* lines 303-313: the labels the walk over the siblings from position k adds
next_sibling(blocks, k) ==
    IF k > Len(blocks) \/ EndsSiblings(blocks[k]) THEN Returned(<<>>)
    ELSE IF AddsInterval(blocks[k])
         THEN ThenLabels(AnchorText(blocks[k]), next_sibling(blocks, k + 1))
         ELSE next_sibling(blocks, k + 1)

RECURSIVE hour_block(_, _)
\* lines 297-313: the labels the hour blocks from position h on add
hour_block(blocks, h) ==
    IF h > Len(blocks) THEN Returned(<<>>)
    ELSE IF IsHourBlock(blocks[h])
         THEN ThenLabels(ThenLabels(AnchorText(blocks[h]), next_sibling(blocks, h + 1)),
                         hour_block(blocks, h + 1))
         ELSE hour_block(blocks, h + 1)

\* extract_hours_continous raising when the container is absent
extract_hours_continous_raising(soup) ==
    IF ~soup.found THEN Raised
    ELSE hour_block(soup.hours_div, 1)

\* power_data_downloader_utils.py, lines 246-315
extract_hours_continous(soup) ==
    IF ~soup.found THEN Returned(<<>>)
    ELSE hour_block(soup.hours_div, 1)

\* extract_hours, lines 232-244: hours_div.find("ul") raises AttributeError
\* when the container is absent, find_all("li") when the list is; every list
\* item gives the text of its anchor
RECURSIVE hour_item(_, _)
hour_item(blocks, k) ==
    IF k > Len(blocks) THEN Returned(<<>>)
    ELSE IF blocks[k].tag = "li"
         THEN ThenLabels(AnchorText(blocks[k]), hour_item(blocks, k + 1))
         ELSE hour_item(blocks, k + 1)

\* power_data_downloader_utils.py, lines 210-244
extract_hours(soup) ==
    IF ~soup.found THEN Raised
    ELSE IF ~soup.ul THEN Raised
    ELSE hour_item(soup.hours_div, 1)

\* a page: found tells whether it has the container of the hour list, ul
\* whether the container has a list, hours_div the elements of the list
Page(found, ul, hours_div) == [found |-> found, ul |-> ul, hours_div |-> hours_div]

\* a list element with its classes and the text of its anchor
Li(class, a) == [a |-> a, tag |-> "li", class |-> class]

\* the page of an attempt whose hours have not been extracted
NoPage == Page(FALSE, FALSE, <<>>)

\* the pages a run of download() may get, as extract_hours reads them
HoursPages ==
    { Page(FALSE, FALSE, <<>>),
      Page(TRUE, FALSE, <<>>),
      Page(TRUE, TRUE, <<>>),
      Page(TRUE, TRUE, <<Li(<<"child">>, NULL)>>),
      Page(TRUE, TRUE, <<Li(<<"child">>, "0")>>),
      Page(TRUE, TRUE, <<Li(<<"child">>, "00 - 01")>>),
      Page(TRUE, TRUE, <<Li(<<"child">>, "00 - 01"), Li(<<"child">>, "01 - 02")>>) }

\* the pages a run of download() may get, as extract_hours_continous reads
\* them
ContinuousHoursPages ==
    { Page(FALSE, FALSE, <<>>),
      Page(TRUE, FALSE, <<>>),
      Page(TRUE, TRUE, <<>>),
      Page(TRUE, TRUE, <<Li(<<"child">>, NULL)>>),
      Page(TRUE, TRUE, <<Li(<<"child">>, "0")>>),
      Page(TRUE, TRUE, <<Li(<<"child">>, "00 - 01"),
                         Li(<<"sub-child", "lvl-2">>, "00:00 - 00:30")>>) }

\* extract_hours
HoursResults == {extract_hours(soup) : soup \in HoursPages}

\* extract_volume_and_price_data: rows of parsed numbers, none of them empty;
\* float() also parses the text "nan"
VolumeResults ==
    { Raised, Returned(<<>>),
      Returned(<< <<"1.0", "2.0", "3.0">> >>),
      Returned(<< <<"1.0", "2.0", "3.0", NAN>> >>),
      Returned(<< <<"1.0", "2.0", "3.0", "40.5">>, <<"5.0", "6.0", "11.0", "42.0">> >>) }

RECURSIVE replace_commas(_)
\* str.replace(",", "")
replace_commas(s) ==
    IF Len(s) = 0 THEN s
    ELSE IF SubSeq(s, 1, 1) = "," THEN replace_commas(SubSeq(s, 2, Len(s)))
    ELSE SubSeq(s, 1, 1) \o replace_commas(SubSeq(s, 2, Len(s)))

\* the texts float() parses, with the float each gives
FloatTexts ==
    ("1000" :> "1000.0") @@ ("20.5" :> "20.5") @@ ("50.0" :> "50.0") @@
    ("60.0" :> "60.0") @@ ("nan" :> NAN)

\* float(cell.text.strip().replace(",", "")): ValueError on any other text
float(text) ==
    LET s == replace_commas(Strip(text))
    IN  IF s \in DOMAIN FloatTexts THEN Returned(FloatTexts[s]) ELSE RaisedText

\* the pages extract_baseload_peakload reads: the text of the span of the
\* Baseload row and of the Peakload row, NULL when the page has no such row
BasePeakPages ==
    {[baseload |-> b, peakload |-> p] :
        b \in {NULL, " 50.0 ", "-"}, p \in {NULL, "60.0", "-"}}

\* extract_baseload_peakload with a Peakload text float() rejects returned as
\* None
extract_baseload_peakload_numeric(soup) ==
    LET baseload_value == IF soup.baseload = NULL THEN Returned(NULL)
                          ELSE float(soup.baseload)
        peakload_value == IF soup.peakload = NULL THEN NULL
                          ELSE IF float(soup.peakload).exc
                               THEN NULL
                               ELSE float(soup.peakload).val
    IN  IF baseload_value.exc THEN Raised
        ELSE Returned(<<baseload_value.val, peakload_value>>)

\* power_data_downloader_utils.py, lines 476-525: float() of the Baseload text
\* may raise; a Peakload text float() rejects is returned as text
extract_baseload_peakload(soup) ==
    LET baseload_value == IF soup.baseload = NULL THEN Returned(NULL)
                          ELSE float(soup.baseload)
        peakload_value == IF soup.peakload = NULL THEN NULL
                          ELSE IF float(soup.peakload).exc
                               THEN replace_commas(Strip(soup.peakload))
                               ELSE float(soup.peakload).val
    IN  IF baseload_value.exc THEN Raised
        ELSE Returned(<<baseload_value.val, peakload_value>>)

\* extract_baseload_peakload on the pages of a run
BasePeakResults == {extract_baseload_peakload(soup) : soup \in BasePeakPages}

\* extract_hours_continous
ContinuousHoursResults ==
    {extract_hours_continous(soup) : soup \in ContinuousHoursPages}

\* extract_volume_and_price_data_continuous: rows of numbers and None
ContinuousResults ==
    { Raised, Returned(<<>>),
      Returned(<< <<"1.0", "2.0", "3.0">> >>),
      Returned(<< <<"1.0", "2.0", "3.0", "4.0", "8.0", "9.0", "10.0">> >>),
      Returned(<< <<"1.0", "2.0", "3.0", "4.0", "5.0", "6.0", "7.0", "8.0", "9.0", "10.0">>,
                  <<"1.0", "2.0", "3.0", "4.0", "5.0", NULL, NULL, "8.0", "9.0", "10.0">> >>) }

\* the header texts of the second table row
HeaderResults ==
    { Raised,
      Returned(<<"Low", "High", "Last", "Weight Avg.", "Buy Volume", "Sell Volume", "Volume">>),
      Returned(<<"Low", "High", "Last", "Weight Avg.", "ID Full", "ID1", "ID3",
                 "Buy Volume", "Sell Volume", "Volume">>),
      Returned(<<"Low", "High", "Last", "Weight Avg.", "ID Full", "RPD", "RPD HH",
                 "Buy Volume", "Sell Volume", "Volume">>) }

\* soup.find('script', ...) followed by script_tag.string.strip(): the tag or
\* its text may be missing
ScriptTagResults == { RaisedText, Returned("json") }

\* one point of the aggregated curves of the payload
CurvePoint(side, x, y, day, hour_range) ==
    [key |-> side, x |-> x, y |-> y, day |-> day, hour_range |-> hour_range]

\* the two json.loads and the walk over the points: the points in the order
\* demand, supply, or an exception
JsonResults ==
    { Raised, Returned(<<>>) } \cup
    { Returned(<<CurvePoint("demand", "100.0", "55.0", d, "00:00 - 01:00"),
                 CurvePoint("supply", "120.0", "-5.0", d, "00:00 - 01:00")>>) : d \in Days }

-----------------------------------------------------------------------------
(* power_data_downloader_architecture.py: download(). *)

VARIABLES
    type,                        \* the parameter type of every run
    tracking_file,               \* the tracking CSV file
    archives,                    \* the archive files, by path
    clock,                       \* the number of readings of datetime.now()
    pc,                          \* where the driver stands
    combos,                      \* the combinations of the run, in loop order
    idx,                         \* the combination the loops stand at
    existing_combinations_file,  \* download: the tracking file existed at the start
    exsting_combinations,        \* download: the combinations read at the start
    total_error_count,
    success_indicator,
    current_utc_time,
    loc,                         \* the other local variables of the driver
    ledger_at_start,             \* history: the tracking file when the run started
    attempted                    \* history: combinations of the run not skipped

vars == <<type, tracking_file, archives, clock, pc, combos, idx,
          existing_combinations_file, exsting_combinations, total_error_count,
          success_indicator, current_utc_time, loc, ledger_at_start, attempted>>

\* the locals before anything is assigned.  download() reads a local only
\* after assigning it in the same iteration (every read stands behind
\* success_indicator != "Error"), so values of earlier iterations are dropped.
NoLocals ==
    [url |-> <<>>, last_update |-> NULL, hours |-> <<>>, table_data |-> <<>>,
     hours_data_list |-> <<>>, base_peak_data_list |-> <<>>, headers |-> <<>>,
     data_list |-> <<>>, hours_data_df |-> <<>>, base_peak_data_df |-> <<>>,
     data_df |-> <<>>, baseload |-> NULL, peakload |-> NULL,
     demand_and_supply |-> <<>>, soup |-> NoPage]

NoCombinations == [header |-> <<>>, data |-> <<>>]

\* Combinations with the loop over the market areas outside the loop over the
\* date pairs
Combinations_area_major(date_combinations, market_areas) ==
    LET dates == Reverse(date_combinations)
    IN  Flatten([m \in 1..Len(market_areas) |->
            Flatten([v \in 1..Len(market_areas[m].values) |->
                [d \in 1..Len(dates) |->
                    [trading_date  |-> dates[d][1],
                     delivery_date |-> dates[d][2],
                     market_area   |-> market_areas[m].area,
                     value         |-> market_areas[m].values[v]]]])])

\* the loops "for date_combination in date_combinations[::-1]",
\* "for market_area, values in market_areas.items()", "for value in values"
Combinations(date_combinations, market_areas) ==
    LET dates == Reverse(date_combinations)
    IN  Flatten([d \in 1..Len(dates) |->
            Flatten([m \in 1..Len(market_areas) |->
                [v \in 1..Len(market_areas[m].values) |->
                    [trading_date  |-> dates[d][1],
                     delivery_date |-> dates[d][2],
                     market_area   |-> market_areas[m].area,
                     value         |-> market_areas[m].values[v]]]])])

\* the market area as the driver uses it after cleaning
CleanMarketArea(t, area) ==
    IF t \in {"dayahead", "aggregated_curves_dayahead"} /\ In("GB", area)
    THEN "GB" ELSE area

\* value_clean; continuous runs do not assign it
CleanValue(t, v) ==
    IF t \in {"dayahead", "aggregated_curves_dayahead"}
    THEN CASE v = "SDAC"           -> "MRC"
           [] v = "GB DAA 1 (60')" -> "GB"
           [] v = "GB DAA 2 (30')" -> "30-call-GB"
           [] OTHER                -> v
    ELSE IF t \in {"intraday", "aggregated_curves_intraday"}
    THEN CASE v = "SIDC IDA1" -> "IDA1"
           [] v = "SIDC IDA2" -> "IDA2"
           [] v = "SIDC IDA3" -> "IDA3"
           [] In("CH", v)     -> v
           [] In("GB", v)     -> v
           [] OTHER           -> " "
    ELSE ""

\* the combination the loops stand at
market_area   == CleanMarketArea(type, combos[idx].market_area)
value         == combos[idx].value
trading_date  == combos[idx].trading_date
delivery_date == combos[idx].delivery_date

columns_to_check(t) ==
    IF t = "continuous"
    THEN <<"MarketArea", "DeliveryDate", "TradingModality", "Product(min)">>
    ELSE <<"MarketArea", "TradingDate", "DeliveryDate", "TradingModality",
           "SubModality", "AuctionName">>

KeyOf(t, area, tdate, ddate, v) ==
    IF t = "continuous"
    THEN <<area, DateOf(ddate), trading_modality(t), v>>
    ELSE <<area, DateOf(tdate), DateOf(ddate), trading_modality(t), sub_modality(t), v>>

combination_to_check ==
    KeyOf(type, market_area, trading_date, delivery_date, value)

\* the query of the target URL
Url ==
    IF type = "continuous"
    THEN <<market_area, "", "", StrfTime(delivery_date), "Continuous", "", "table", value>>
    ELSE <<market_area, CleanValue(type, value), StrfTime(trading_date),
           StrfTime(delivery_date), "Auction", sub_modality(type),
           IF In("aggregated_curves", type) THEN "aggregated" ELSE "table", "">>

\* the metadata every row of the combination starts with
Meta ==
    IF type = "continuous"
    THEN <<market_area, DateOf(delivery_date), trading_modality(type), value, loc.last_update>>
    ELSE <<market_area, DateOf(trading_date), DateOf(delivery_date),
           trading_modality(type), sub_modality(type), value, loc.last_update>>

\* the archive file of a market area: kind is "hours", "base_peak" or ""
ArchivePath(area, t, kind) ==
    area \o "/epex_" \o area \o "_" \o t \o (IF kind = "" THEN "" ELSE "_" \o kind)
         \o "_archive.csv"

ArchivePaths ==
    { ArchivePath(CleanMarketArea(t, item.area), t, k) :
        t \in Types,
        item \in UNION {Range(m) : m \in UNION {MarketAreaMaps(tt) : tt \in Types}},
        k \in {"hours", "base_peak", ""} }

Init ==
    /\ type \in Types
    /\ tracking_file = NoFile
    /\ archives = [p \in ArchivePaths |-> NoFile]
    /\ clock = 0
    /\ pc = "idle"
    /\ combos = <<>>
    /\ idx = 0
    /\ existing_combinations_file = FALSE
    /\ exsting_combinations = NoCombinations
    /\ total_error_count = 0
    /\ success_indicator = NULL
    /\ current_utc_time = NULL
    /\ loc = NoLocals
    /\ ledger_at_start = NoFile
    /\ attempted = 0

\* lines 57-68: the combinations of the tracking file as the run holds them
ExistingCombinations(file) ==
    IF file.exists
    THEN LET e == import_exsting_combinations_file(file, columns_to_check(type))
         IN  IF type = "continuous" THEN e
             ELSE [e EXCEPT !.data = [i \in 1..Len(e.data) |->
                                DateColumn(e.header, e.data[i], "TradingDate")]]
    ELSE NoCombinations

\* the combinations of cs that a run holding existing does not skip
ToAttempt(cs, existing) ==
    {i \in 1..Len(cs) :
        ~check_existing_combinations(existing,
            KeyOf(type, CleanMarketArea(type, cs[i].market_area),
                  cs[i].trading_date, cs[i].delivery_date, cs[i].value))}

\* lines 57-71: the tracking file is read once, before the loops.  A run
\* starts only if the clock readings of its attempts stay within MaxClock.
StartRun ==
    /\ pc \in {"idle", "done", "aborted"}
    /\ \E dc \in DateLists, ma \in MarketAreaMaps(type) :
        /\ clock + Cardinality(ToAttempt(Combinations(dc, ma),
                                         ExistingCombinations(tracking_file))) <= MaxClock
        /\ combos' = Combinations(dc, ma)
    /\ idx' = 1
    /\ existing_combinations_file' = tracking_file.exists
    /\ exsting_combinations' = ExistingCombinations(tracking_file)
    /\ total_error_count' = 0
    /\ success_indicator' = NULL
    /\ current_utc_time' = NULL
    /\ loc' = NoLocals
    /\ ledger_at_start' = tracking_file
    /\ attempted' = 0
    /\ pc' = "loop"
    /\ UNCHANGED <<type, tracking_file, archives, clock>>

\* lines 131-140
archive_check ==
    IF existing_combinations_file
    THEN check_existing_combinations(exsting_combinations, combination_to_check)
    ELSE FALSE

\* lines 92-143: the combination is in the tracking file already
SkipCombination ==
    /\ pc = "loop"
    /\ idx <= Len(combos)
    /\ archive_check
    /\ success_indicator' = NULL
    /\ current_utc_time' = NULL
    /\ idx' = idx + 1
    /\ UNCHANGED <<type, tracking_file, archives, clock, pc, combos,
                   existing_combinations_file, exsting_combinations,
                   total_error_count, loc, ledger_at_start, attempted>>

\* lines 92-155: the combination must be downloaded
StartAttempt ==
    /\ pc = "loop"
    /\ idx <= Len(combos)
    /\ ~archive_check
    /\ success_indicator' = "Error"
    /\ loc' = [NoLocals EXCEPT !.url = Url]
    /\ current_utc_time' = ToString(clock)
    /\ clock' = clock + 1
    /\ attempted' = attempted + 1
    /\ pc' = "fetch"
    /\ UNCHANGED <<type, tracking_file, archives, combos, idx,
                   existing_combinations_file, exsting_combinations,
                   total_error_count, ledger_at_start>>

\* line 621: the loops are over; the locals of the call are gone
Return ==
    /\ pc = "loop"
    /\ idx > Len(combos)
    /\ pc' = "done"
    /\ combos' = <<>>
    /\ idx' = 0
    /\ existing_combinations_file' = FALSE
    /\ exsting_combinations' = NoCombinations
    /\ success_indicator' = NULL
    /\ current_utc_time' = NULL
    /\ loc' = NoLocals
    /\ UNCHANGED <<type, tracking_file, archives, clock, total_error_count,
                   ledger_at_start, attempted>>

\* an exception no handler catches ends the call
Abort ==
    /\ pc' = "aborted"
    /\ combos' = <<>>
    /\ idx' = 0
    /\ existing_combinations_file' = FALSE
    /\ exsting_combinations' = NoCombinations
    /\ success_indicator' = NULL
    /\ current_utc_time' = NULL
    /\ loc' = NoLocals
    /\ UNCHANGED <<type, tracking_file, archives, clock, total_error_count,
                   ledger_at_start, attempted>>

\* where the driver goes after the extraction part (lines 482 and 598)
AfterExtraction(s, frames) == IF s # "Error" THEN frames ELSE "track"

runFrame == <<type, tracking_file, clock, combos, idx, existing_combinations_file,
              exsting_combinations, total_error_count, current_utc_time,
              ledger_at_start, attempted>>

\* lines 159-173: extract_soup or extract_soup_aggregated_curves
Fetch ==
    /\ pc = "fetch"
    /\ \E ok \in BOOLEAN :
        /\ success_indicator' = IF ok THEN "Success" ELSE "Error"
        /\ pc' = IF ok THEN "last_update" ELSE "track"
    /\ UNCHANGED <<runFrame, archives, loc>>

\* lines 175-194
ExtractLastUpdate ==
    /\ pc = "last_update"
    /\ \E r \in LastUpdateResults :
        LET last_update == IF r.exc THEN NULL ELSE r.val
            s == IF r.exc THEN "Error"
                 ELSE IF Len(last_update) = 0 THEN "Error"
                 ELSE IF Len(last_update) < 10 THEN "Error"
                 ELSE success_indicator
        IN  /\ loc' = [loc EXCEPT !.last_update = last_update]
            /\ success_indicator' = s
            /\ pc' = IF s = "Error" THEN "track"
                     ELSE IF type \in {"dayahead", "intraday"} THEN "hours"
                     ELSE IF type = "continuous" THEN "hours_continuous"
                     ELSE "script_tag"
    /\ UNCHANGED <<runFrame, archives>>

hours_column_names ==
    <<"MarketArea", "TradingDate", "DeliveryDate", "TradingModality", "MarketSegment",
      "AuctionName", "LastUpdate", "Hours", "BuyVolume(MWh)", "SellVolume(MWh)",
      "Volume(MWh)", "Price(EUR/MWh)">>

base_peak_column_names ==
    <<"MarketArea", "TradingDate", "DeliveryDate", "TradingModality", "MarketSegment",
      "AuctionName", "LastUpdate", "Baseload(EUR/MWh)", "Peakload(EUR/MWh)">>

\* lines 198-215: extract_hours and the checks of its result
ExtractHours ==
    /\ pc = "hours"
    /\ \E r \in HoursResults :
        LET s1 == IF r.exc THEN "Error" ELSE success_indicator
            s2 == IF s1 # "Error" /\ Len(r.val) = 0 THEN "Error"
                  ELSE IF s1 # "Error" /\ Len(r.val[1]) < 2 THEN "Error"
                  ELSE s1
        IN  /\ loc' = [loc EXCEPT !.hours = IF r.exc THEN @ ELSE r.val]
            /\ success_indicator' = s2
    /\ pc' = "volume"
    /\ UNCHANGED <<runFrame, archives>>

\* the checks of lines 226-249 on the extracted rows
VolumeDataBad(d) ==
    \/ Len(d) = 0
    \/ Len(d[1]) = 0
    \/ Len(d[Len(d)]) = 0
    \/ Len(d[1]) # 4
    \/ Len(d[Len(d)]) # 4

\* lines 217-249: extract_volume_and_price_data and the checks of its result
ExtractVolumeAndPrice ==
    /\ pc = "volume"
    /\ \E r \in VolumeResults :
        LET s1 == IF r.exc THEN "Error" ELSE success_indicator
            s2 == IF s1 # "Error" /\ VolumeDataBad(r.val) THEN "Error" ELSE s1
        IN  /\ loc' = [loc EXCEPT !.table_data = r.val]
            /\ success_indicator' = s2
    /\ pc' = "assemble"
    /\ UNCHANGED <<runFrame, archives>>

\* AssembleRows written with zip(hours, data): the longer list is cut
AssembleRows_zip(meta, hours, data) ==
    Returned([i \in 1..Min(Len(hours), Len(data)) |-> meta \o <<hours[i]>> \o data[i]])

\* lines 254-269: one row per numeric row, paired with the hour of the same
\* index; hours[index] raises IndexError when the hours run out
AssembleRows(meta, hours, data) ==
    IF Len(data) > Len(hours) THEN Raised
    ELSE Returned([i \in 1..Len(data) |-> meta \o <<hours[i]>> \o data[i]])

\* lines 251-275
AssembleHours ==
    /\ pc = "assemble"
    /\ IF success_indicator # "Error"
       THEN LET r == AssembleRows(Meta, loc.hours, loc.table_data)
            IN  /\ loc' = [loc EXCEPT !.hours_data_list = r.val]
                /\ success_indicator' = IF r.exc THEN "Error" ELSE success_indicator
       ELSE UNCHANGED <<loc, success_indicator>>
    /\ pc' = "base_peak"
    /\ UNCHANGED <<runFrame, archives>>

\* lines 277-305: extract_baseload_peakload, its checks, the base/peak row
ExtractBasePeak ==
    /\ pc = "base_peak"
    /\ \E r \in BasePeakResults :
        LET baseload == IF r.exc THEN NULL ELSE r.val[1]
            peakload == IF r.exc THEN NULL ELSE r.val[2]
            s1 == IF r.exc THEN "Error" ELSE success_indicator
            s2 == IF s1 # "Error" /\ baseload = NULL THEN "Error"
                  ELSE IF s1 # "Error" /\ peakload = NULL THEN "Error"
                  ELSE s1
        IN  /\ loc' = [loc EXCEPT !.baseload = baseload,
                                  !.peakload = peakload,
                                  !.base_peak_data_list =
                        IF s2 # "Error" THEN <<Meta \o <<baseload, peakload>>>> ELSE @]
            /\ success_indicator' = s2
            /\ pc' = AfterExtraction(s2, "frames")
    /\ UNCHANGED <<runFrame, archives>>

\* the check for an empty table left out
EmptyFrame_unchecked(df) == FALSE

\* len(df) == 0, df.empty
EmptyFrame(df) == Len(df) = 0

\* lines 483-514: the two DataFrames and the checks that none is empty
BuildFrames ==
    /\ pc = "frames"
    /\ LET h  == DataFrame(loc.hours_data_list, hours_column_names)
           b  == DataFrame(loc.base_peak_data_list, base_peak_column_names)
           s1 == IF h.exc THEN "Error" ELSE success_indicator
           s2 == IF s1 # "Error" /\ b.exc THEN "Error" ELSE s1
           s3 == IF s2 # "Error" /\ (EmptyFrame(h.val) \/ EmptyFrame(b.val))
                 THEN "Error" ELSE s2
       IN  /\ loc' = [loc EXCEPT !.hours_data_df = clean_df(h.val),
                                 !.base_peak_data_df =
                                    IF s1 # "Error" THEN clean_df(b.val) ELSE @]
           /\ success_indicator' = s3
           /\ pc' = IF s3 # "Error" THEN "write_hours" ELSE "track"
    /\ UNCHANGED <<runFrame, archives>>

\* lines 515-551, elem = "hours": the archive is read, extended and written;
\* any exception on the way leaves the file as it was
WriteHours ==
    /\ pc = "write_hours"
    /\ LET path == ArchivePath(market_area, type, "hours")
       IN  \E ok \in BOOLEAN :
            IF ok
            THEN /\ archives' = [archives EXCEPT ![path] =
                        AppendToArchive(@, loc.hours_data_df, hours_column_names)]
                 /\ success_indicator' = "Success"
                 /\ pc' = "write_base_peak"
            ELSE /\ success_indicator' = "Error"
                 /\ pc' = "track"
                 /\ UNCHANGED archives
    /\ UNCHANGED <<runFrame, loc>>

\* lines 515-551, elem = "basepeak"
WriteBasePeak ==
    /\ pc = "write_base_peak"
    /\ LET path == ArchivePath(market_area, type, "base_peak")
       IN  \E ok \in BOOLEAN :
            IF ok
            THEN /\ archives' = [archives EXCEPT ![path] =
                        AppendToArchive(@, loc.base_peak_data_df, base_peak_column_names)]
                 /\ success_indicator' = "Success"
            ELSE /\ success_indicator' = "Error"
                 /\ UNCHANGED archives
    /\ pc' = "track"
    /\ UNCHANGED <<runFrame, loc>>

continuous_column_names ==
    <<"MarketArea", "DeliveryDate", "TradingModality", "Product(min)", "LastUpdate",
      "Hours", "Low(EUR/MWh)", "High(EUR/MWh)", "Last(EUR/MWh)", "WeightAvg(EUR/MWh)",
      "IDFull(EUR/MWh)", "ID1(EUR/MWh)", "ID3(EUR/MWh)", "BuyVolume(MWh)",
      "SellVolume(MWh)", "Volume(MWh)", "RPD(POUND/MWh)", "RPD HH(POUND/MWh)">>

curves_column_names ==
    <<"MarketArea", "TradingDate", "DeliveryDate", "TradingModality", "MarketSegment",
      "AuctionName", "LastUpdate", "Hours", "Participant", "Volume(MWh)",
      "Price(EUR/MWh)">>

column_names(t) ==
    IF t = "continuous" THEN continuous_column_names ELSE curves_column_names

\* lines 312-329: extract_hours_continous and the checks of its result
ExtractHoursContinuous ==
    /\ pc = "hours_continuous"
    /\ \E soup \in ContinuousHoursPages :
        LET r  == extract_hours_continous(soup)
            s1 == IF r.exc THEN "Error" ELSE "Success"
            s2 == IF s1 # "Error" /\ Len(r.val) = 0 THEN "Error"
                  ELSE IF s1 # "Error" /\ Len(r.val[1]) < 2 THEN "Error"
                  ELSE s1
        IN  /\ loc' = [loc EXCEPT !.hours = IF r.exc THEN @ ELSE r.val,
                                  !.soup = soup]
            /\ success_indicator' = s2
            /\ pc' = IF s2 # "Error" THEN "continuous_data" ELSE "track"
    /\ UNCHANGED <<runFrame, archives>>

\* lines 331-351: extract_volume_and_price_data_continuous.  When it raises,
\* continuous_data is None and len(continuous_data) of line 340 raises a
\* TypeError outside every try block.
ExtractContinuousData ==
    /\ pc = "continuous_data"
    /\ \E r \in ContinuousResults :
        IF r.exc
        THEN Abort
        ELSE LET d == r.val
                 s == IF Len(d) = 0 THEN "Error"
                      ELSE IF Len(d[1]) < 4 THEN "Error"
                      ELSE IF Len(d[Len(d)]) < 4 THEN "Error"
                      ELSE success_indicator
             IN  /\ loc' = [loc EXCEPT !.table_data = d]
                 /\ success_indicator' = s
                 /\ pc' = IF s # "Error" THEN "headers" ELSE "track"
                 /\ UNCHANGED <<runFrame>>
    /\ UNCHANGED archives

\* lines 353-360: the header texts of the second table row
ExtractHeaders ==
    /\ pc = "headers"
    /\ \E r \in HeaderResults :
        /\ loc' = [loc EXCEPT !.headers = r.val]
        /\ success_indicator' = IF r.exc THEN "Error" ELSE success_indicator
        /\ pc' = IF r.exc THEN "track" ELSE "assemble_continuous"
    /\ UNCHANGED <<runFrame, archives>>

UpperCase == "ABCDEFGHIJKLMNOPQRSTUVWXYZ"
LowerCase == "abcdefghijklmnopqrstuvwxyz"

RECURSIVE Lower(_)
\* str.lower()
Lower(s) ==
    IF Len(s) = 0 THEN s
    ELSE LET c == SubSeq(s, 1, 1)
             l == IF \E i \in 1..Len(UpperCase) : SubSeq(UpperCase, i, i) = c
                  THEN LET i == CHOOSE i \in 1..Len(UpperCase) : SubSeq(UpperCase, i, i) = c
                       IN  SubSeq(LowerCase, i, i)
                  ELSE c
         IN  l \o Lower(SubSeq(s, 2, Len(s)))

\* lines 363-376: which optional columns the page shows
Indicators(headers) ==
    [id_full |-> \E i \in 1..Len(headers) :
                    In("id", Lower(headers[i])) /\ In("full", Lower(headers[i])),
     id_1    |-> \E i \in 1..Len(headers) :
                    In("id", Lower(headers[i])) /\ In("1", Lower(headers[i])),
     id_3    |-> \E i \in 1..Len(headers) :
                    In("id", Lower(headers[i])) /\ In("3", Lower(headers[i])),
     rpd     |-> \E i \in 1..Len(headers) : In("rpd", Lower(headers[i]))]

RECURSIVE PlaceEntries_fixed(_, _, _, _)
\* PlaceEntries with no None put for an optional column that is not shown
PlaceEntries_fixed(row_clean, row_counter, entries, ind) ==
    IF entries = <<>> THEN row_clean
    ELSE PlaceEntries_fixed(Append(row_clean, Head(entries)), row_counter + 1,
                            Tail(entries), ind)

RECURSIVE PlaceEntries(_, _, _, _)
\* lines 386-400: the entries of one numeric row appended to row_clean, a None
\* put where an optional column is not shown.  row_counter is the 0-based
\* index the next entry would get.
PlaceEntries(row_clean, row_counter, entries, ind) ==
    IF entries = <<>> THEN row_clean
    ELSE LET s0 == [row |-> row_clean, c |-> row_counter + 1]
             s1 == IF ~ind.id_full /\ s0.c = 10
                   THEN [row |-> Append(s0.row, NULL), c |-> s0.c + 1] ELSE s0
             s2 == IF (~ind.id_1 /\ ~ind.rpd) /\ s1.c = 11
                   THEN [row |-> Append(s1.row, NULL), c |-> s1.c + 1] ELSE s1
             s3 == IF (~ind.id_3 /\ ~ind.rpd) /\ s2.c = 12
                   THEN [row |-> Append(s2.row, NULL), c |-> s2.c + 1] ELSE s2
         IN  PlaceEntries(Append(s3.row, Head(entries)), s3.c, Tail(entries), ind)

\* ContinuousRow with the GB branch left out: two None for every area
ContinuousRow_every_area(meta, area, hour, entries, ind) ==
    Returned(PlaceEntries(meta \o <<hour>>, Len(meta), entries, ind) \o <<NULL, NULL>>)

\* lines 382-410: one row of the continuous table; row_clean[11] and
\* row_clean[12] are the 12th and 13th cell
ContinuousRow(meta, area, hour, entries, ind) ==
    LET row_clean == PlaceEntries(meta \o <<hour>>, Len(meta), entries, ind)
    IN  IF ~In("GB", area)
        THEN Returned(row_clean \o <<NULL, NULL>>)
        ELSE IF Len(row_clean) < 13 THEN Raised
        ELSE Returned([row_clean EXCEPT ![12] = NULL, ![13] = NULL]
                        \o <<row_clean[12], row_clean[13]>>)

\* lines 378-418
AssembleContinuousRows(meta, area, hours, data, ind) ==
    IF Len(data) > Len(hours) THEN Raised
    ELSE LET rows == [i \in 1..Len(data) |->
                        ContinuousRow(meta, area, hours[i], data[i], ind)]
         IN  IF \E i \in 1..Len(rows) : rows[i].exc THEN Raised
             ELSE Returned([i \in 1..Len(rows) |-> rows[i].val])

\* lines 362-418
AssembleContinuous ==
    /\ pc = "assemble_continuous"
    /\ LET r == AssembleContinuousRows(Meta, market_area, loc.hours, loc.table_data,
                                       Indicators(loc.headers))
           s == IF r.exc THEN "Error" ELSE success_indicator
       IN  /\ loc' = [loc EXCEPT !.data_list = r.val]
           /\ success_indicator' = s
           /\ pc' = AfterExtraction(s, "frame")
    /\ UNCHANGED <<runFrame, archives>>

\* lines 424-442: the script tag and its text
FindScriptTag ==
    /\ pc = "script_tag"
    /\ \E r \in ScriptTagResults :
        /\ success_indicator' = IF r.exc THEN "Error" ELSE "Success"
        /\ pc' = IF r.exc THEN "track" ELSE "parse_json"
    /\ UNCHANGED <<runFrame, archives, loc>>

\* CurveRows with the delivery date of the request left in the row
CurveRows_requested(meta, points) ==
    [i \in 1..Len(points) |->
        meta \o <<points[i].hour_range, points[i].key, points[i].x, points[i].y>>]

\* lines 455-475: one row per point; the delivery date of the row is the one
\* of the point
CurveRows(meta, points) ==
    [i \in 1..Len(points) |->
        [(meta \o <<points[i].hour_range, points[i].key, points[i].x, points[i].y>>)
            EXCEPT ![3] = DateObj(points[i].day)]]

\* lines 444-480.  The handler of line 476 binds no exception, so print(e) of
\* line 479 raises UnboundLocalError inside the handler.
ParseJson ==
    /\ pc = "parse_json"
    /\ \E r \in JsonResults :
        IF r.exc
        THEN Abort
        ELSE /\ loc' = [loc EXCEPT !.demand_and_supply = r.val,
                                   !.data_list = CurveRows(Meta, r.val)]
             /\ pc' = AfterExtraction(success_indicator, "frame")
             /\ UNCHANGED <<runFrame, success_indicator>>
    /\ UNCHANGED archives

\* lines 553-571: the DataFrame and the checks that it is not empty
BuildFrame ==
    /\ pc = "frame"
    /\ LET d  == DataFrame(loc.data_list, column_names(type))
           s1 == IF d.exc THEN "Error" ELSE success_indicator
           s2 == IF s1 # "Error" /\ EmptyFrame(d.val) THEN "Error" ELSE s1
       IN  /\ loc' = [loc EXCEPT !.data_df = clean_df(d.val)]
           /\ success_indicator' = s2
           /\ pc' = IF s2 # "Error" THEN "write" ELSE "track"
    /\ UNCHANGED <<runFrame, archives>>

\* lines 573-596
WriteArchive ==
    /\ pc = "write"
    /\ LET path == ArchivePath(market_area, type, "")
       IN  \E ok \in BOOLEAN :
            IF ok
            THEN /\ archives' = [archives EXCEPT ![path] =
                        AppendToArchive(@, loc.data_df, column_names(type))]
                 /\ success_indicator' = "Success"
            ELSE /\ success_indicator' = "Error"
                 /\ UNCHANGED archives
    /\ pc' = "track"
    /\ UNCHANGED <<runFrame, loc>>

\* lines 602-610
tracking_data ==
    IF In("dayahead", type) \/ In("intraday", type) \/ In("aggregated_curves", type)
    THEN <<market_area, StrfTime(trading_date), StrfTime(delivery_date),
           trading_modality(type), sub_modality(type), value, current_utc_time,
           success_indicator>>
    ELSE <<market_area, StrfTime(delivery_date), trading_modality(type), value,
           current_utc_time, success_indicator>>

header_row ==
    IF In("dayahead", type) \/ In("intraday", type) \/ In("aggregated_curves", type)
    THEN <<"MarketArea", "TradingDate", "DeliveryDate", "TradingModality",
           "SubModality", "AuctionName", "WebsiteAccessTimeUTC", "SuccessIndicator">>
    ELSE <<"MarketArea", "DeliveryDate", "TradingModality", "Product(min)",
           "WebsiteAccessTimeUTC", "SuccessIndicator">>

\* lines 598-599 counting every attempt
CountError_every_attempt(s, count) == count + 1

\* lines 598-599: the error count after an attempt with outcome s
CountError(s, count) == IF s = "Error" THEN count + 1 ELSE count

\* lines 598-615: the error count and the entry of the tracking file
Track ==
    /\ pc = "track"
    /\ total_error_count' = CountError(success_indicator, total_error_count)
    /\ tracking_file' = update_tracking_file(tracking_file, tracking_data, header_row)
    /\ pc' = "pace"
    /\ UNCHANGED <<type, archives, clock, combos, idx, existing_combinations_file,
                   exsting_combinations, success_indicator, current_utc_time, loc,
                   ledger_at_start, attempted>>

\* line 617: time.sleep(backoff_time), then the next combination
Pace ==
    /\ pc = "pace"
    /\ idx' = idx + 1
    /\ pc' = "loop"
    /\ loc' = NoLocals
    /\ UNCHANGED <<type, tracking_file, archives, clock, combos,
                   existing_combinations_file, exsting_combinations,
                   total_error_count, success_indicator, current_utc_time,
                   ledger_at_start, attempted>>

Next ==
    \/ StartRun
    \/ SkipCombination
    \/ StartAttempt
    \/ Return
    \/ Fetch
    \/ ExtractLastUpdate
    \/ ExtractHours
    \/ ExtractVolumeAndPrice
    \/ AssembleHours
    \/ ExtractBasePeak
    \/ BuildFrames
    \/ WriteHours
    \/ WriteBasePeak
    \/ ExtractHoursContinuous
    \/ ExtractContinuousData
    \/ ExtractHeaders
    \/ AssembleContinuous
    \/ FindScriptTag
    \/ ParseJson
    \/ BuildFrame
    \/ WriteArchive
    \/ Track
    \/ Pace

Spec == Init /\ [][Next]_vars

-----------------------------------------------------------------------------
(* power_data_utils.py and power_data_main.py: what download_data() uses. *)

\* plausibility_checks with the test of the single columns left out
plausibility_checks_all_nan(df) ==
    ~(\A i \in 1..Len(df) : \A j \in 1..Len(df[i]) : IsNa(df[i][j]))

\* plausibility_checks looking for a row, not a column, missing in every cell
plausibility_checks_rows(df) ==
    LET all_nan == \A i \in 1..Len(df) : \A j \in 1..Len(df[i]) : IsNa(df[i][j])
        number_all_nans ==
            Cardinality({i \in 1..Len(df) : \A j \in 1..Len(df[i]) : IsNa(df[i][j])})
    IN  IF all_nan THEN FALSE
        ELSE IF number_all_nans > 0 THEN FALSE
        ELSE TRUE

\* plausibility_checks: False when every cell is missing (a table without rows
\* included) or some column is missing in every row
plausibility_checks(df) ==
    LET all_nan == \A i \in 1..Len(df) : \A j \in 1..Len(df[i]) : IsNa(df[i][j])
        number_all_nans ==
            IF df = <<>> THEN 0
            ELSE Cardinality({j \in 1..Len(df[1]) : \A i \in 1..Len(df) : IsNa(df[i][j])})
    IN  IF all_nan THEN FALSE
        ELSE IF number_all_nans > 0 THEN FALSE
        ELSE TRUE

\* what to_excel stores for one cell: a date as a date cell, a missing value as
\* an empty cell
ExcelCell(c) ==
    IF IsNa(c) THEN ""
    ELSE IF \E d \in Days : c = DateObj(d)
         THEN Timestamp(CHOOSE d \in Days : c = DateObj(d))
         ELSE c

\* import_xlsx: header and data rows, empty cells read as NaN
import_xlsx(file) ==
    [header |-> file.rows[1],
     data   |-> [i \in 1..(Len(file.rows) - 1) |->
                    [j \in 1..Len(file.rows[i + 1]) |->
                        IF file.rows[i + 1][j] = "" THEN NAN ELSE file.rows[i + 1][j]]]]

\* lines 103-115: the archive as the driver holds it, the two date columns
\* turned into dates; an empty table when the file does not exist
ArchiveFrame(file) ==
    IF file.exists
    THEN LET a == import_xlsx(file)
         IN  [header |-> a.header,
              data   |-> [i \in 1..Len(a.data) |->
                            DateColumn(a.header,
                                DateColumn(a.header, a.data[i], "TradingDate"),
                                "DeliveryDate")]]
    ELSE NoCombinations

\* check_archive asking that every row equals the combination (all() for any())
check_archive_every_row(archive_df, combination, cols) ==
    LET kept == [i \in 1..Len(archive_df.data) |->
                    KeepColumns(archive_df.header, archive_df.data[i], cols)]
        archive_unique_df == DropDuplicates(kept)
    IN  \A i \in 1..Len(archive_unique_df) : archive_unique_df[i] = combination

\* check_archive
check_archive(archive_df, combination, cols) ==
    LET kept == [i \in 1..Len(archive_df.data) |->
                    KeepColumns(archive_df.header, archive_df.data[i], cols)]
        archive_unique_df == DropDuplicates(kept)
    IN  \E i \in 1..Len(archive_unique_df) : archive_unique_df[i] = combination

\* pd.concat of the archive and the new table, then to_excel
AppendToExcel(file, df, columns) ==
    LET all == ArchiveFrame(file).data \o df
    IN  File(<<columns>> \o [i \in 1..Len(all) |->
                [j \in 1..Len(all[i]) |-> ExcelCell(all[i][j])]])

DataTypes == {"Dayahead", "Intraday"}

\* dayahead_sub_modality, intraday_sub_modality
data_sub_modality(t) == IF In("head", t) THEN "DayAhead" ELSE "Intraday"

\* the lists relevant_days a run may be given
RelevantDays ==
    { <<DatePair("2025-01-13", "2025-01-14", "08:00")>>,
      <<DatePair("2025-01-13", "2025-01-14", "08:00"),
        DatePair("2025-01-13", "2025-01-14", "08:00")>>,
      <<DatePair("2025-01-14", "2025-01-14", "08:00"),
        DatePair("2025-01-13", "2025-01-14", "08:00")>> }

\* the dictionaries market_areas a run may be given, as lists of items
DataMarketAreaMaps(t) ==
    IF In("head", t)
    THEN { <<[area |-> "GB_1", values |-> <<"GB DAA 1 (60')">>]>> }
    ELSE IF t = "intraday"
    THEN { <<[area |-> "DE-LU", values |-> <<"SIDC IDA1">>]>>,
           <<[area |-> "DE-LU", values |-> <<"SIDC IDA1">>],
             [area |-> "CH", values |-> <<"CH-IDA1">>]>> }
    ELSE { <<[area |-> "DE-LU", values |-> <<"SIDC IDA1">>]>> }

\* the archive files of a type: kind is "hourly" or "basepeak"
DataArchivePath(t, kind) ==
    "epex_auction_" \o Lower(t) \o "/epex_auction_" \o Lower(t) \o "_" \o kind
        \o "_data_archive.xlsx"

DataArchivePaths == { DataArchivePath(t, k) : t \in DataTypes, k \in {"hourly", "basepeak"} }

-----------------------------------------------------------------------------
(* What the extractors of power_data_utils.py may return for a page. *)

\* extract_last_update: the text, or ValueError
DataLastUpdateResults ==
    { RaisedText, Returned(""), Returned("8 Jan"),
      Returned("13 January 2025 (10:33:43 CET/CEST)") }

\* extract_hours
DataHoursResults ==
    { Raised, Returned(<<>>), Returned(<<"00 - 01">>), Returned(<<"00 - 01", "01 - 02">>) }

\* extract_volume_and_price_data: float() also parses the text "nan"
DataVolumeResults ==
    { Raised, Returned(<<>>),
      Returned(<< <<"1.0", "2.0", "3.0", NAN>> >>),
      Returned(<< <<"1.0", "2.0", "3.0", "40.5">>, <<"5.0", "6.0", "11.0", "42.0">> >>) }

\* extract_baseload_peakload
DataBasePeakResults ==
    { Raised, Returned(<<NULL, NULL>>), Returned(<<"50.0", "60.0">>),
      Returned(<<NAN, "60.0">>), Returned(<<"50.0", "-">>) }

-----------------------------------------------------------------------------
(* power_data_architecture.py: download_data(). *)

\* The locals of download_data.  They keep their values from one iteration to
\* the next; bound holds the names that have been assigned so far, and reading
\* a name outside it raises UnboundLocalError.  soup holds what
\* extract_last_update returns for the page.  fresh is history: the names
\* that have been assigned since the loops came to the combination.
NoDataLocals ==
    [bound |-> {}, num_hours_records |-> NULL, base_peak_sucess |-> NULL,
     archive_check_hours |-> FALSE, archive_check_base_peak |-> FALSE,
     soup |-> RaisedText, last_update |-> NULL, hours |-> <<>>, hourly_data |-> <<>>,
     hourly_data_df |-> <<>>, baseload |-> NULL, peakload |-> NULL,
     base_peak_data_df |-> <<>>, fresh |-> {}]

\* the loops of lines 80-97: the days in the order given
DataCombinations(relevant_days, market_areas) ==
    Flatten([d \in 1..Len(relevant_days) |->
        Flatten([m \in 1..Len(market_areas) |->
            [v \in 1..Len(market_areas[m].values) |->
                [trading_date  |-> relevant_days[d][1],
                 delivery_date |-> relevant_days[d][2],
                 market_area   |-> market_areas[m].area,
                 value         |-> market_areas[m].values[v]]]])])

\* lines 119-121
data_market_area ==
    IF In("head", type) /\ In("GB", combos[idx].market_area)
    THEN "GB" ELSE combos[idx].market_area

auction_name == combos[idx].value

\* lines 119-147
auction_name_clean ==
    IF In("head", type)
    THEN CASE auction_name = "SDAC"           -> "MRC"
           [] auction_name = "GB DAA 1 (60')" -> "GB"
           [] auction_name = "GB DAA 2 (30')" -> "30-call-GB"
           [] OTHER                           -> auction_name
    ELSE CASE auction_name = "SIDC IDA1" -> "IDA1"
           [] auction_name = "SIDC IDA2" -> "IDA2"
           [] auction_name = "SIDC IDA3" -> "IDA3"
           [] In("CH", auction_name)     -> auction_name
           [] In("GB", auction_name)     -> auction_name
           [] OTHER                      -> " "

\* line 149
data_combination_to_check ==
    <<data_market_area, DateOf(trading_date), DateOf(delivery_date), "Auction",
      data_sub_modality(type), auction_name>>

archive_columns_to_check ==
    <<"MarketArea", "TradingDate", "DeliveryDate", "TradingModality", "MarketSegment",
      "AuctionName">>

\* the price column is written here with EUR for the euro sign of the source
columns_hourly ==
    <<"MarketArea", "TradingDate", "DeliveryDate", "TradingModality", "MarketSegment",
      "AuctionName", "LastUpdate", "Hours", "BuyVolume(MWh)", "SellVolume(MWh)",
      "Volume(MWh)", "Price(EUR/MWh)">>

columns_base_peak ==
    <<"MarketArea", "TradingDate", "DeliveryDate", "TradingModality", "MarketSegment",
      "AuctionName", "LastUpdate", "Baseload(EUR/MWh)", "Peakload(EUR/MWh)">>

archive_hourly_data_filepath == DataArchivePath(type, "hourly")
archive_base_peak_data_filepath == DataArchivePath(type, "basepeak")

\* lines 150-153
archive_check_hours ==
    IF archives[archive_hourly_data_filepath].exists
    THEN check_archive(ArchiveFrame(archives[archive_hourly_data_filepath]),
                       data_combination_to_check, archive_columns_to_check)
    ELSE FALSE

\* lines 154-157
archive_check_base_peak ==
    IF archives[archive_base_peak_data_filepath].exists
    THEN check_archive(ArchiveFrame(archives[archive_base_peak_data_filepath]),
                       data_combination_to_check, archive_columns_to_check)
    ELSE FALSE

\* line 160 with "or" for "and"
CanSkip_either(check_hours, check_base_peak) ==
    check_hours = TRUE \/ check_base_peak = TRUE

\* line 160
CanSkip(check_hours, check_base_peak) == check_hours = TRUE /\ check_base_peak = TRUE

\* line 197 without the test of archive_check_hours
HoursPartRuns_unchecked(check_hours, num_hours_records) ==
    num_hours_records # "Error"

\* line 197
HoursPartRuns(check_hours, num_hours_records) ==
    check_hours = FALSE /\ num_hours_records # "Error"

\* line 281
BasePeakPartRuns(check_base_peak, base_peak_sucess) ==
    check_base_peak = FALSE /\ base_peak_sucess # "Error"

\* the row metadata of lines 244 and 300
DataMeta ==
    <<data_market_area, DateOf(trading_date), DateOf(delivery_date), "Auction",
      data_sub_modality(type), auction_name, loc.last_update>>

InitData ==
    /\ type \in DataTypes
    /\ tracking_file = NoFile
    /\ archives = [p \in DataArchivePaths |-> NoFile]
    /\ clock = 0
    /\ pc = "idle"
    /\ combos = <<>>
    /\ idx = 0
    /\ existing_combinations_file = FALSE
    /\ exsting_combinations = NoCombinations
    /\ total_error_count = 0
    /\ success_indicator = NULL
    /\ current_utc_time = NULL
    /\ loc = NoDataLocals
    /\ ledger_at_start = NoFile
    /\ attempted = 0

\* what download_data never assigns
dataFrame == <<type, existing_combinations_file, exsting_combinations,
               total_error_count, success_indicator>>

\* lines 66-80: a call of download_data
DataStartRun ==
    /\ pc \in {"idle", "done", "aborted"}
    /\ \E rd \in RelevantDays, ma \in DataMarketAreaMaps(type) :
        /\ clock + Len(DataCombinations(rd, ma)) <= MaxClock
        /\ combos' = DataCombinations(rd, ma)
    /\ idx' = 1
    /\ current_utc_time' = NULL
    /\ loc' = NoDataLocals
    /\ ledger_at_start' = tracking_file
    /\ attempted' = 0
    /\ pc' = "loop"
    /\ UNCHANGED <<dataFrame, tracking_file, archives, clock>>

\* lines 97-161 and 325: both archives hold the combination
DataSkip ==
    /\ pc = "loop"
    /\ idx <= Len(combos)
    /\ CanSkip(archive_check_hours, archive_check_base_peak)
    /\ loc' = [loc EXCEPT !.num_hours_records = NULL, !.base_peak_sucess = NULL,
                          !.archive_check_hours = archive_check_hours,
                          !.archive_check_base_peak = archive_check_base_peak,
                          !.fresh = {}]
    /\ current_utc_time' = NULL
    /\ pc' = "pace"
    /\ UNCHANGED <<dataFrame, tracking_file, archives, clock, combos, idx,
                   ledger_at_start, attempted>>

\* lines 97-167: the combination must be added to at least one archive
DataStartAttempt ==
    /\ pc = "loop"
    /\ idx <= Len(combos)
    /\ ~CanSkip(archive_check_hours, archive_check_base_peak)
    /\ loc' = [loc EXCEPT !.num_hours_records = NULL, !.base_peak_sucess = NULL,
                          !.archive_check_hours = archive_check_hours,
                          !.archive_check_base_peak = archive_check_base_peak,
                          !.fresh = {}]
    /\ current_utc_time' = ToString(clock)
    /\ clock' = clock + 1
    /\ attempted' = attempted + 1
    /\ pc' = "fetch"
    /\ UNCHANGED <<dataFrame, tracking_file, archives, combos, idx, ledger_at_start>>

\* the loops are over
DataReturn ==
    /\ pc = "loop"
    /\ idx > Len(combos)
    /\ pc' = "done"
    /\ combos' = <<>>
    /\ idx' = 0
    /\ current_utc_time' = NULL
    /\ loc' = NoDataLocals
    /\ UNCHANGED <<dataFrame, tracking_file, archives, clock, ledger_at_start, attempted>>

\* an exception no handler catches ends the call
DataAbort ==
    /\ pc' = "aborted"
    /\ combos' = <<>>
    /\ idx' = 0
    /\ current_utc_time' = NULL
    /\ loc' = NoDataLocals
    /\ UNCHANGED <<dataFrame, tracking_file, archives, clock, ledger_at_start, attempted>>

dataRunFrame == <<dataFrame, tracking_file, clock, combos, idx, current_utc_time,
                  ledger_at_start, attempted>>

\* lines 171-177 without the two assignments
FetchFailed_unmarked(l) == l

\* lines 171-177: the handler of a failed fetch marks both outcomes and
\* assigns nothing to soup
FetchFailed(l) == [l EXCEPT !.num_hours_records = "Error", !.base_peak_sucess = "Error"]

\* lines 168-177: extract_soup
DataFetch ==
    /\ pc = "fetch"
    /\ \/ \E page \in DataLastUpdateResults :
            loc' = [loc EXCEPT !.soup = page, !.bound = @ \cup {"soup"},
                               !.fresh = @ \cup {"soup"}]
       \/ loc' = FetchFailed(loc)
    /\ pc' = "last_update"
    /\ UNCHANGED <<dataRunFrame, archives>>

\* lines 179-195: extract_last_update on soup, whatever page soup holds
DataLastUpdate ==
    /\ pc = "last_update"
    /\ LET raised == "soup" \notin loc.bound \/ loc.soup.exc
           l1 == IF raised
                 THEN [loc EXCEPT !.num_hours_records = "Error",
                                  !.base_peak_sucess = "Error"]
                 ELSE [loc EXCEPT !.last_update = loc.soup.val,
                                  !.bound = @ \cup {"last_update"},
                                  !.fresh = @ \cup {"last_update"}]
       IN  IF "last_update" \notin l1.bound
           THEN DataAbort
           ELSE /\ loc' = IF Len(l1.last_update) = 0 \/ Len(l1.last_update) < 10
                          THEN [l1 EXCEPT !.num_hours_records = "Error",
                                          !.base_peak_sucess = "Error"]
                          ELSE l1
                /\ pc' = "hours"
                /\ UNCHANGED dataRunFrame
    /\ UNCHANGED archives

\* lines 206-212: the outcome of the checks on hours; "raise" when len(hours[0])
\* is evaluated on an empty list
HoursOutcome(hours, num_hours_records) ==
    IF Len(hours) = 0 /\ num_hours_records # "Error" THEN "Error"
    ELSE IF Len(hours) = 0 THEN "raise"
    ELSE IF Len(hours[1]) < 2 /\ num_hours_records # "Error" THEN "Error"
    ELSE num_hours_records

\* lines 197-212: extract_hours and the checks of its result
DataExtractHours ==
    /\ pc = "hours"
    /\ IF ~HoursPartRuns(loc.archive_check_hours, loc.num_hours_records)
       THEN /\ pc' = "base_peak"
            /\ UNCHANGED <<loc, dataRunFrame>>
       ELSE \E r \in DataHoursResults :
            LET l1 == IF r.exc
                      THEN [loc EXCEPT !.num_hours_records = "Error"]
                      ELSE [loc EXCEPT !.hours = r.val, !.bound = @ \cup {"hours"},
                                       !.fresh = @ \cup {"hours"}]
            IN  IF "hours" \notin l1.bound
                   \/ HoursOutcome(l1.hours, l1.num_hours_records) = "raise"
                THEN DataAbort
                ELSE /\ loc' = [l1 EXCEPT !.num_hours_records =
                                    HoursOutcome(l1.hours, l1.num_hours_records)]
                     /\ pc' = "volume"
                     /\ UNCHANGED dataRunFrame
    /\ UNCHANGED archives

\* lines 221-235: the outcome of the checks on hourly_data; "raise" when
\* hourly_data[0] is evaluated on an empty list
HourlyDataOutcome(hourly_data, num_hours_records) ==
    LET ok == num_hours_records # "Error"
        d  == hourly_data
    IN  IF Len(d) = 0 /\ ok THEN "Error"
        ELSE IF Len(d) = 0 THEN "raise"
        ELSE IF Len(d[1]) = 0 /\ ok THEN "Error"
        ELSE IF Len(d[Len(d)]) = 0 /\ ok THEN "Error"
        ELSE IF (Len(d[1]) # 4 /\ ok) \/ (Len(d[Len(d)]) # 4 /\ ok) THEN "Error"
        ELSE num_hours_records

\* lines 214-235: extract_volume_and_price_data and the checks of its result
DataExtractVolume ==
    /\ pc = "volume"
    /\ \E r \in DataVolumeResults :
        LET l1 == IF r.exc
                  THEN [loc EXCEPT !.num_hours_records = "Error"]
                  ELSE [loc EXCEPT !.hourly_data = r.val, !.bound = @ \cup {"hourly_data"},
                                   !.fresh = @ \cup {"hourly_data"}]
        IN  IF "hourly_data" \notin l1.bound
               \/ HourlyDataOutcome(l1.hourly_data, l1.num_hours_records) = "raise"
            THEN DataAbort
            ELSE /\ loc' = [l1 EXCEPT !.num_hours_records =
                                HourlyDataOutcome(l1.hourly_data, l1.num_hours_records)]
                 /\ pc' = "merge_hourly"
                 /\ UNCHANGED dataRunFrame
    /\ UNCHANGED archives

\* lines 237-279: the hourly table is assembled, checked and appended.
\* to_excel stands outside every try block.
DataMergeHourly ==
    /\ pc = "merge_hourly"
    /\ IF loc.num_hours_records = "Error"
       THEN /\ pc' = "base_peak"
            /\ UNCHANGED <<loc, archives, dataRunFrame>>
       ELSE LET rows == AssembleRows(DataMeta, loc.hours, loc.hourly_data)
                df   == IF rows.exc THEN Raised ELSE DataFrame(rows.val, columns_hourly)
                l1   == IF df.exc
                        THEN [loc EXCEPT !.num_hours_records = "Error"]
                        ELSE [loc EXCEPT !.hourly_data_df = clean_df(df.val),
                                         !.bound = @ \cup {"hourly_data_df"}]
                n1   == IF EmptyFrame(l1.hourly_data_df) /\ l1.num_hours_records # "Error"
                        THEN "Error" ELSE l1.num_hours_records
            IN  IF "hourly_data_df" \notin l1.bound
                THEN DataAbort /\ UNCHANGED archives
                ELSE IF plausibility_checks(l1.hourly_data_df) /\ n1 # "Error"
                THEN \E ok \in BOOLEAN :
                        IF ok
                        THEN /\ archives' = [archives EXCEPT
                                    ![archive_hourly_data_filepath] =
                                        AppendToExcel(@, l1.hourly_data_df, columns_hourly)]
                             /\ loc' = [l1 EXCEPT !.num_hours_records =
                                            ToString(Len(l1.hourly_data_df))]
                             /\ pc' = "base_peak"
                             /\ UNCHANGED dataRunFrame
                        ELSE DataAbort /\ UNCHANGED archives
                ELSE /\ loc' = [l1 EXCEPT !.num_hours_records = "Error"]
                     /\ pc' = "base_peak"
                     /\ UNCHANGED <<archives, dataRunFrame>>

\* lines 281-295: extract_baseload_peakload and the checks of its result
DataExtractBasePeak ==
    /\ pc = "base_peak"
    /\ IF ~BasePeakPartRuns(loc.archive_check_base_peak, loc.base_peak_sucess)
       THEN /\ pc' = "track"
            /\ UNCHANGED <<loc, dataRunFrame>>
       ELSE \E r \in DataBasePeakResults :
            LET l1 == IF r.exc
                      THEN [loc EXCEPT !.base_peak_sucess = "Error"]
                      ELSE [loc EXCEPT !.baseload = r.val[1], !.peakload = r.val[2],
                                       !.bound = @ \cup {"base_peak"},
                                       !.fresh = @ \cup {"base_peak"}]
                ok == l1.base_peak_sucess # "Error"
            IN  IF "base_peak" \notin l1.bound
                THEN DataAbort
                ELSE /\ loc' = IF (l1.baseload = NULL /\ ok) \/ (l1.peakload = NULL /\ ok)
                               THEN [l1 EXCEPT !.base_peak_sucess = "Error"]
                               ELSE l1
                     /\ pc' = "merge_base_peak"
                     /\ UNCHANGED dataRunFrame
    /\ UNCHANGED archives

\* lines 297-323: the base/peak table is built, checked and appended
DataMergeBasePeak ==
    /\ pc = "merge_base_peak"
    /\ IF loc.base_peak_sucess = "Error"
       THEN /\ pc' = "track"
            /\ UNCHANGED <<loc, archives, dataRunFrame>>
       ELSE LET df == DataFrame(<<DataMeta \o <<loc.baseload, loc.peakload>>>>,
                                columns_base_peak)
                l1 == IF df.exc
                      THEN [loc EXCEPT !.base_peak_sucess = "Error"]
                      ELSE [loc EXCEPT !.base_peak_data_df = clean_df(df.val),
                                       !.bound = @ \cup {"base_peak_data_df"}]
                s1 == IF EmptyFrame(l1.base_peak_data_df) /\ l1.base_peak_sucess # "Error"
                      THEN "Error" ELSE l1.base_peak_sucess
            IN  IF "base_peak_data_df" \notin l1.bound
                THEN DataAbort /\ UNCHANGED archives
                ELSE IF plausibility_checks(l1.base_peak_data_df) /\ s1 # "Error"
                THEN \E ok \in BOOLEAN :
                        IF ok
                        THEN /\ archives' = [archives EXCEPT
                                    ![archive_base_peak_data_filepath] =
                                        AppendToExcel(@, l1.base_peak_data_df,
                                                      columns_base_peak)]
                             /\ loc' = [l1 EXCEPT !.base_peak_sucess = "Success"]
                             /\ pc' = "track"
                             /\ UNCHANGED dataRunFrame
                        ELSE DataAbort /\ UNCHANGED archives
                ELSE /\ loc' = [l1 EXCEPT !.base_peak_sucess = "Error"]
                     /\ pc' = "track"
                     /\ UNCHANGED <<archives, dataRunFrame>>

\* lines 326-336
data_tracking_data ==
    <<data_market_area, StrfTime(trading_date), StrfTime(delivery_date), "Auction",
      data_sub_modality(type), auction_name, current_utc_time,
      loc.num_hours_records, loc.base_peak_sucess>>

\* lines 363-373
data_header_row ==
    <<"MarketArea", "TradingDate", "DeliveryDate", "Modality", "SubModality",
      "AuctionName", "WebsiteAccessTimeUTC", "NumberHourlyEntries", "BasePeakSuccess">>

\* lines 339-376: the new row is put right after the header
WriteTrackingRow(file, row, header) ==
    IF file.exists
    THEN File(<<file.rows[1]>> \o <<CsvWriterRow(row)>> \o Tail(file.rows))
    ELSE File(<<CsvWriterRow(header), CsvWriterRow(row)>>)

\* lines 339-376 as they run: rows[0] of line 347 raises for a file that
\* exists and has no row
WriteTrackingRow_call(file, row, header) ==
    IF file.exists /\ file.rows = <<>> THEN Raised
    ELSE Returned(WriteTrackingRow(file, row, header))

\* lines 325-378
DataTrack ==
    /\ pc = "track"
    /\ tracking_file' =
        IF loc.archive_check_hours = FALSE \/ loc.archive_check_base_peak = FALSE
        THEN WriteTrackingRow(tracking_file, data_tracking_data, data_header_row)
        ELSE tracking_file
    /\ pc' = "pace"
    /\ UNCHANGED <<dataFrame, archives, clock, combos, idx, current_utc_time, loc,
                   ledger_at_start, attempted>>

\* line 381: time.sleep(backoff_time), for every combination
DataPace ==
    /\ pc = "pace"
    /\ idx' = idx + 1
    /\ pc' = "loop"
    /\ UNCHANGED <<dataFrame, tracking_file, archives, clock, combos, current_utc_time,
                   loc, ledger_at_start, attempted>>

NextData ==
    \/ DataStartRun
    \/ DataSkip
    \/ DataStartAttempt
    \/ DataReturn
    \/ DataFetch
    \/ DataLastUpdate
    \/ DataExtractHours
    \/ DataExtractVolume
    \/ DataMergeHourly
    \/ DataExtractBasePeak
    \/ DataMergeBasePeak
    \/ DataTrack
    \/ DataPace

SpecData == InitData /\ [][NextData]_vars

-----------------------------------------------------------------------------
(* What the properties below speak about. *)

\* the data rows of a ledger or of an archive file
DataRows(file) == IF file.exists THEN Tail(file.rows) ELSE <<>>

\* a call of the driver is under way
Running == pc \notin {"idle", "done", "aborted"}

\* the attempt of a combination is under way in download()
InAttempt == pc \notin {"idle", "loop", "pace", "done", "aborted"}

\* the key of combination c of a run of download(), as the ledger shows it
LedgerKey(t, c) ==
    IF t = "continuous"
    THEN <<CleanMarketArea(t, c.market_area), StrfTime(c.delivery_date),
           trading_modality(t), c.value>>
    ELSE <<CleanMarketArea(t, c.market_area), StrfTime(c.trading_date),
           StrfTime(c.delivery_date), trading_modality(t), sub_modality(t), c.value>>

\* the ledger holds an entry of the key whose outcome is one of outcomes
HasEntry(file, key, outcomes) ==
    \E i \in 1..Len(DataRows(file)) :
        LET row == DataRows(file)[i]
        IN  SubSeq(row, 1, Len(key)) = key /\ row[Len(row)] \in outcomes

HasNonErrorEntry(file, key) ==
    \E i \in 1..Len(DataRows(file)) :
        LET row == DataRows(file)[i]
        IN  SubSeq(row, 1, Len(key)) = key /\ row[Len(row)] # "Error"

\* every entry of the key is an Error entry, and there is one
ErrorOnly(file, key) == HasEntry(file, key, {"Error"}) /\ ~HasNonErrorEntry(file, key)

\* an archive file holds rows of the key
InArchiveFile(file, key) ==
    \E i \in 1..Len(DataRows(file)) : SubSeq(DataRows(file)[i], 1, Len(key)) = key

\* a table without rows
ZeroRows(df) == df = <<>>

\* a table without rows, or with a column missing in every row
FailsPlausibility(df) ==
    ZeroRows(df) \/ \E j \in 1..Len(df[1]) : \A i \in 1..Len(df) : IsNa(df[i][j])

\* the table the archive write of download() is about to append
TableToAppend ==
    CASE pc = "write_hours"     -> loc.hours_data_df
      [] pc = "write_base_peak" -> loc.base_peak_data_df
      [] pc = "write"           -> loc.data_df
      [] OTHER                  -> <<>>

-----------------------------------------------------------------------------
(* Properties of download(), checked under Spec. *)

\* the ledger read at the start of the run holds a non-Error entry for every
\* combination of the run
AllRecordedAtStart ==
    /\ Running
    /\ combos # <<>>
    /\ \A i \in 1..Len(combos) :
          HasNonErrorEntry(ledger_at_start, LedgerKey(type, combos[i]))

\* C1: a run of download() that finds a non-Error ledger entry for each of its
\* combinations fetches no page, leaves every archive as it is and adds no
\* ledger entry.
C1_Idempotence ==
    [][AllRecordedAtStart =>
          /\ pc' # "fetch"
          /\ archives' = archives
          /\ tracking_file' = tracking_file]_vars

\* C1, reached: a run with at least one combination has skipped all of them
C1_AllSkipped ==
    /\ AllRecordedAtStart
    /\ pc = "loop"
    /\ idx > Len(combos)
    /\ attempted = 0
    /\ tracking_file = ledger_at_start

\* C2: a combination with Error entries only is fetched again by the next run,
\* and the attempt ends with a new ledger entry of that combination.
C2_ErrorRetry ==
    [][/\ (pc = "loop" /\ idx <= Len(combos)
              /\ ErrorOnly(ledger_at_start, LedgerKey(type, combos[idx])))
          => pc' = "fetch"
       /\ (InAttempt /\ ErrorOnly(ledger_at_start, LedgerKey(type, combos[idx])))
          => pc' # "aborted"
       /\ (pc = "track" /\ ErrorOnly(ledger_at_start, LedgerKey(type, combos[idx])))
          => /\ Len(DataRows(tracking_file')) = Len(DataRows(tracking_file)) + 1
             /\ HasEntry(File(<<tracking_file'.rows[1], tracking_file'.rows[2]>>),
                         LedgerKey(type, combos[idx]), {"Success", "Error"})]_vars

\* C3: no page is fetched for a combination that the ledger shows as
\* ingested with outcome Success, in the same run or in a later one.
C3_AtMostOnce ==
    pc = "fetch" => ~HasEntry(tracking_file, LedgerKey(type, combos[idx]), {"Success"})

\* C4: between two combinations, and when the call has ended, the run has added
\* one ledger entry for each combination it did not skip.
C4_OneEntryPerAttempt ==
    pc \in {"loop", "done", "aborted"} =>
        Len(DataRows(tracking_file)) - Len(DataRows(ledger_at_start)) = attempted

\* C5: no failure on one combination ends the call of download() before the
\* loops are over.
C5_NeverAborts == pc # "aborted"

C10_MergeOnlyMissing ==
    [][\A kind \in {"hours", "base_peak"} :
          (/\ type \in {"dayahead", "intraday"}
           /\ pc \in {"write_hours", "write_base_peak"}
           /\ ErrorOnly(ledger_at_start, LedgerKey(type, combos[idx]))
           /\ archives'[ArchivePath(market_area, type, kind)]
                  # archives[ArchivePath(market_area, type, kind)])
          => ~InArchiveFile(archives[ArchivePath(market_area, type, kind)],
                            LedgerKey(type, combos[idx]))]_vars

-----------------------------------------------------------------------------
(* Properties of download_data(), checked under SpecData. *)

\* the key of the combination the loops of download_data() stand at, as the
\* archive files show it
DataKey ==
    <<data_market_area, Timestamp(StrfTime(trading_date)),
      Timestamp(StrfTime(delivery_date)), "Auction", data_sub_modality(type),
      auction_name>>

InHourlyArchive == InArchiveFile(archives[archive_hourly_data_filepath], DataKey)
InBasePeakArchive == InArchiveFile(archives[archive_base_peak_data_filepath], DataKey)

\* the attempt of a combination is under way in download_data()
InDataAttempt ==
    pc \in {"fetch", "last_update", "hours", "volume", "merge_hourly", "base_peak",
            "merge_base_peak", "track"}

\* what the tracking file shows of an outcome: csv.writer writes None as ""
Written(outcome) == IF outcome = NULL THEN "" ELSE outcome

\* C7: in download_data() an hourly or base/peak table that has no rows or a
\* column missing in every row is not appended to its archive, its outcome
\* becomes "Error", and that outcome is what the tracking entry of the attempt
\* shows.
C7_ImplausibleNotMerged ==
    [][/\ (pc = "merge_hourly" /\ pc' = "base_peak"
              /\ FailsPlausibility(loc'.hourly_data_df))
          => (archives' = archives /\ loc'.num_hours_records = "Error")
       /\ (pc = "merge_base_peak" /\ pc' = "track"
              /\ FailsPlausibility(loc'.base_peak_data_df))
          => (archives' = archives /\ loc'.base_peak_sucess = "Error")
       /\ (pc \in {"base_peak", "merge_base_peak"} /\ pc' # "aborted")
          => loc'.num_hours_records = loc.num_hours_records
       /\ pc = "track"
          => /\ Len(DataRows(tracking_file')) = Len(DataRows(tracking_file)) + 1
             /\ tracking_file'.rows[2][8] = Written(loc.num_hours_records)
             /\ tracking_file'.rows[2][9] = Written(loc.base_peak_sucess)]_vars

\* C7, reached: the first attempt of a behaviour has built an hourly table with
\* a column of NaN only, nothing was archived and the tracking entry shows
\* "Error" for the hourly part
C7_ImplausibleHourly ==
    /\ pc = "pace"
    /\ clock = 1
    /\ "hourly_data_df" \in loc.bound
    /\ ~ZeroRows(loc.hourly_data_df)
    /\ FailsPlausibility(loc.hourly_data_df)
    /\ ~archives[archive_hourly_data_filepath].exists
    /\ tracking_file.exists
    /\ tracking_file.rows[2][8] = "Error"

\* C8: download_data() skips a combination only when both archives hold its
\* key; a skipped combination changes no file and reads no clock; when one of
\* the archives lacks the key, or does not exist, the page is fetched.
C8_SkipOnlyIfBoth ==
    [][/\ (pc = "loop" /\ idx <= Len(combos))
          => /\ pc' = "pace" => (InHourlyArchive /\ InBasePeakArchive)
             /\ pc' = "pace" => (archives' = archives /\ tracking_file' = tracking_file
                                    /\ clock' = clock)
             /\ ~(InHourlyArchive /\ InBasePeakArchive) => pc' = "fetch"
       /\ pc = "pace" => (archives' = archives /\ tracking_file' = tracking_file)]_vars

\* C8, reached: a combination has been skipped, both archives holding its key
C8_Skipped ==
    /\ pc = "pace"
    /\ current_utc_time = NULL
    /\ InHourlyArchive
    /\ InBasePeakArchive

\* C9: when one of the two archives holds the key of the combination and the
\* other does not, download_data() fetches the page, and no step of an attempt
\* changes an archive that holds the key of the attempted combination.
C9_PartialPresence ==
    [][/\ (pc = "loop" /\ idx <= Len(combos) /\ InHourlyArchive # InBasePeakArchive)
          => pc' = "fetch"
       /\ (InDataAttempt /\ InHourlyArchive)
          => archives'[archive_hourly_data_filepath]
                = archives[archive_hourly_data_filepath]
       /\ (InDataAttempt /\ InBasePeakArchive)
          => archives'[archive_base_peak_data_filepath]
                = archives[archive_base_peak_data_filepath]]_vars

\* C9, reached: the hourly archive held the key when the attempt began, the
\* base/peak archive did not, and the attempt has appended the base/peak row
C9_OnlyMissingAppended ==
    /\ pc = "track"
    /\ loc.archive_check_hours
    /\ ~loc.archive_check_base_peak
    /\ loc.base_peak_sucess = "Success"
    /\ InHourlyArchive
    /\ InBasePeakArchive

-----------------------------------------------------------------------------
(* The helper functions called on their own.  A behaviour of SpecCalls is one
   call: the arguments are drawn in the initial state (loc holds them, and
   tracking_file the file a call works on), the action of the function applies
   it, loc.result holds what it returned and pc tells whether it raised. *)

\* header rows and entries of a tracking file
CallHeaders ==
    {<<"MarketArea", "SuccessIndicator">>,
     <<"MarketArea", "DeliveryDate", "SuccessIndicator">>}

CallEntries ==
    {<<"DE", "Success">>, <<"GB", "Error">>, <<"DE", "2025-01-14", "Success">>}

\* tracking files: absent, without any row, a header only, one or two entries
CallFiles ==
    {NoFile, File(<<>>)}
    \cup {File(<<h>>) : h \in CallHeaders}
    \cup {File(<<h, e>>) : h \in CallHeaders, e \in CallEntries}
    \cup {File(<<h, e1, e2>>) : h \in CallHeaders, e1 \in CallEntries, e2 \in CallEntries}

\* the calls of update_tracking_file and of the tracking block of download_data
LedgerCalls ==
    {[fn |-> f, tracking_data |-> e, header_row |-> h] :
        f \in {"update_tracking_file", "download_data.tracking"},
        e \in CallEntries, h \in CallHeaders}

\* tables for plausibility_checks: no row, one or two rows of one or two cells
CallCells == {"1", NULL, NAN}

CallTables ==
    {<<>>}
    \cup {<< <<a>> >> : a \in CallCells}
    \cup {<< <<a>>, <<b>> >> : a \in CallCells, b \in CallCells}
    \cup {<< <<a, b>> >> : a \in CallCells, b \in CallCells}
    \cup {<< <<a, b>>, <<c, d>> >> :
            a \in CallCells, b \in CallCells, c \in CallCells, d \in CallCells}
    \cup {<< <<"1", NULL>>, <<"2", NULL>> >>, << <<"1", "2">>, <<"3", "4">> >>}

PlausibilityCalls == {[fn |-> "plausibility_checks", df |-> t] : t \in CallTables}

\* archives for the existence checks: up to three rows of a market area, a
\* delivery date and a volume; the match columns are the first two
CallArchiveRows ==
    {<<a, DateObj(d), v>> : a \in {"DE", "FR"}, d \in Days, v \in {"5", "6"}}

CallArchives ==
    {[header |-> <<"MarketArea", "DeliveryDate", "Volume(MWh)">>, data |-> rows] :
        rows \in {<<>>} \cup {<<r>> : r \in CallArchiveRows}
                 \cup {<<r1, r2>> : r1 \in CallArchiveRows, r2 \in CallArchiveRows}
                 \cup {<<r1, r2, r1>> : r1 \in CallArchiveRows, r2 \in CallArchiveRows}}

CallKeys == {<<a, DateObj(d)>> : a \in {"DE", "FR", "BE"}, d \in Days}

\* check_archive is given the archive as read, check_existing_combinations the
\* frame import_exsting_combinations_file has cut down to the match columns
CheckCalls ==
    {[fn |-> "check_archive", archive_df |-> a, combination |-> k,
      columns_to_check |-> <<"MarketArea", "DeliveryDate">>] :
        a \in CallArchives, k \in CallKeys}
    \cup
    {[fn |-> "check_existing_combinations",
      archive_df |-> [header |-> <<"MarketArea", "DeliveryDate">>,
                      data   |-> [i \in 1..Len(a.data) |-> SubSeq(a.data[i], 1, 2)]],
      combination |-> k, columns_to_check |-> <<"MarketArea", "DeliveryDate">>] :
        a \in CallArchives, k \in CallKeys}

\* the label cleaning of the two drivers: a type, a market area and a label of
\* the auctions of the type, among them labels the cleaning does not name
DayaheadLabels == {"SDAC", "GB DAA 1 (60')", "GB DAA 2 (30')", "CH"}

IntradayLabels == {"SIDC IDA1", "SIDC IDA2", "SIDC IDA3", "CH-IDA1", "GB-IDA2", "IDA1"}

CallAreas == {"DE-LU", "CH", "GB", "GB_1", "GB_2"}

LabelCalls ==
    {[fn |-> "label_cleaning", type |-> t, market_area |-> a, value |-> v] :
        t \in {"dayahead", "aggregated_curves_dayahead", "Dayahead"},
        a \in CallAreas, v \in DayaheadLabels}
    \cup
    {[fn |-> "label_cleaning", type |-> t, market_area |-> a, value |-> v] :
        t \in {"intraday", "aggregated_curves_intraday", "Intraday"},
        a \in CallAreas, v \in IntradayLabels}

\* the combination a call of the label cleaning stands at
CallCombination(call) ==
    [trading_date  |-> DateTime("2025-01-13", "08:00"),
     delivery_date |-> DateTime("2025-01-14", "08:00"),
     market_area   |-> call.market_area,
     value         |-> call.value]

\* the documents extract_hours_continous is called with: the container of the
\* hour list is absent, or holds up to MaxBlocks sibling elements; an element
\* has a tag, a list of classes and the text of its anchor (NULL: no anchor);
\* found tells whether soup.find returned the container
MaxBlocks == 3

CallBlockKinds ==
    { [tag |-> "li",  class |-> <<"child">>],
      [tag |-> "li",  class |-> <<"sub-child", "lvl-1">>],
      [tag |-> "li",  class |-> <<"sub-child", "lvl-2">>],
      [tag |-> "li",  class |-> <<>>],
      [tag |-> "div", class |-> <<"child">>] }

CallAnchors == {"00 - 01", " 01 - 02", "00:00 - 00:15 ", NULL}

CallBlocks == {[a |-> t] @@ k : k \in CallBlockKinds, t \in CallAnchors}

CallDocuments ==
    {[found |-> FALSE, hours_div |-> <<>>]} \cup
    {[found |-> TRUE, hours_div |-> d] :
        d \in UNION {[1..n -> CallBlocks] : n \in 0..MaxBlocks}}

HoursCalls == {[fn |-> "extract_hours_continous", soup |-> s] : s \in CallDocuments}

\* the pages the numeric table extraction is called with: the table of class
\* table-01 is absent, or has up to MaxRows rows of up to MaxCells cells; a cell
\* is its text
MaxRows == 2

MaxCells == 2

CallCellTexts == {" 1,000 ", " ", "n/a"}

CallTableRows == UNION {[1..n -> CallCellTexts] : n \in 0..MaxCells}

CallPages ==
    {[found |-> FALSE, rows |-> <<>>]} \cup
    {[found |-> TRUE, rows |-> t] :
        t \in UNION {[1..n -> CallTableRows] : n \in 0..MaxRows}}

VolumeCalls == {[fn |-> "extract_volume_and_price_data", soup |-> s] : s \in CallPages}

ContinuousVolumeCalls ==
    {[fn |-> "extract_volume_and_price_data_continuous", soup |-> s] : s \in CallPages}

\* the continuous pages the row assembly is called with: the four price
\* headers, any of the optional headers ID Full, ID1 and ID3, or on a GB page
\* the two RPD headers, and the three volume headers; the numeric row holds one
\* value for each header, or lacks the last one
CallOptionalHeaders ==
    {<<>>, <<"ID Full">>, <<"ID1">>, <<"ID3">>, <<"ID Full", "ID1">>, <<"ID Full", "ID3">>,
     <<"ID1", "ID3">>, <<"ID Full", "ID1", "ID3">>,
     <<"RPD", "RPD HH">>, <<"ID Full", "RPD", "RPD HH">>}

CallContinuousHeaders ==
    {<<"Low", "High", "Last", "Weight Avg.">> \o o \o <<"Buy Volume", "Sell Volume", "Volume">> :
        o \in CallOptionalHeaders}

\* the value the page shows in the column of a header
CallValue(header) == "v:" \o header

AssembleCalls ==
    {[fn |-> "assemble_continuous", market_area |-> a, headers |-> h,
      hours |-> <<"00 - 01">>,
      continuous_data |-> <<[k \in 1..(Len(h) - short) |-> CallValue(h[k])]>>] :
        a \in {"DE", "GB"}, h \in CallContinuousHeaders, short \in {0, 1}}

\* row_clean before the hour is appended, line 383
CallMeta(call) ==
    <<call.market_area, DateObj("2025-01-13"), "Continuous", "60",
      "13 January 2025 (10:33:43 CET/CEST)">>

Calls == LedgerCalls \cup PlausibilityCalls \cup CheckCalls \cup LabelCalls \cup HoursCalls \cup VolumeCalls \cup ContinuousVolumeCalls \cup AssembleCalls

\* what a call never assigns
callFrame == <<type, archives, clock, combos, idx, existing_combinations_file,
               exsting_combinations, total_error_count, success_indicator,
               current_utc_time, ledger_at_start, attempted>>

InitCalls ==
    /\ loc \in Calls
    /\ type = IF loc.fn = "label_cleaning" THEN loc.type ELSE "call"
    /\ combos = IF loc.fn = "label_cleaning" THEN <<CallCombination(loc)>> ELSE <<>>
    /\ idx = IF loc.fn = "label_cleaning" THEN 1 ELSE 0
    /\ tracking_file \in (IF loc.fn \in {"update_tracking_file", "download_data.tracking"}
                          THEN CallFiles ELSE {NoFile})
    /\ ledger_at_start = tracking_file
    /\ archives = <<>>
    /\ clock = 0
    /\ pc = "call"
    /\ existing_combinations_file = FALSE
    /\ exsting_combinations = NoCombinations
    /\ total_error_count = 0
    /\ success_indicator = NULL
    /\ current_utc_time = NULL
    /\ attempted = 0

\* power_data_downloader_utils.py, lines 571-625
CallUpdateTrackingFile ==
    /\ pc = "call"
    /\ loc.fn = "update_tracking_file"
    /\ LET r == update_tracking_file_call(tracking_file, loc.tracking_data, loc.header_row)
       IN  /\ pc' = IF r.exc THEN "raised" ELSE "returned"
           /\ tracking_file' = IF r.exc THEN tracking_file ELSE r.val
    /\ UNCHANGED <<callFrame, loc>>

\* power_data_architecture.py, lines 339-376
CallWriteTrackingRow ==
    /\ pc = "call"
    /\ loc.fn = "download_data.tracking"
    /\ LET r == WriteTrackingRow_call(tracking_file, loc.tracking_data, loc.header_row)
       IN  /\ pc' = IF r.exc THEN "raised" ELSE "returned"
           /\ tracking_file' = IF r.exc THEN tracking_file ELSE r.val
    /\ UNCHANGED <<callFrame, loc>>

\* what a call leaves in loc when it returns
WithResult(call, r) == [result |-> r] @@ call

\* power_data_utils.py, lines 345-397
CallPlausibilityChecks ==
    /\ pc = "call"
    /\ loc.fn = "plausibility_checks"
    /\ loc' = WithResult(loc, plausibility_checks(loc.df))
    /\ pc' = "returned"
    /\ UNCHANGED <<callFrame, tracking_file>>

\* power_data_utils.py, lines 37-82
CallCheckArchive ==
    /\ pc = "call"
    /\ loc.fn = "check_archive"
    /\ loc' = WithResult(loc, check_archive(loc.archive_df, loc.combination,
                                            loc.columns_to_check))
    /\ pc' = "returned"
    /\ UNCHANGED <<callFrame, tracking_file>>

\* power_data_downloader_utils.py, lines 61-92
CallCheckExistingCombinations ==
    /\ pc = "call"
    /\ loc.fn = "check_existing_combinations"
    /\ loc' = WithResult(loc, check_existing_combinations(loc.archive_df, loc.combination))
    /\ pc' = "returned"
    /\ UNCHANGED <<callFrame, tracking_file>>

\* power_data_downloader_architecture.py, lines 99-129, and
\* power_data_architecture.py, lines 119-147
CallLabelCleaning ==
    /\ pc = "call"
    /\ loc.fn = "label_cleaning"
    /\ loc' = WithResult(loc,
                IF type \in Types
                THEN [market_area |-> market_area, value_clean |-> CleanValue(type, value)]
                ELSE [market_area |-> data_market_area, value_clean |-> auction_name_clean])
    /\ pc' = "returned"
    /\ UNCHANGED <<callFrame, tracking_file>>

\* power_data_downloader_utils.py, lines 246-315
CallExtractHoursContinous ==
    /\ pc = "call"
    /\ loc.fn = "extract_hours_continous"
    /\ LET r == extract_hours_continous(loc.soup)
       IN  /\ loc' = WithResult(loc, r)
           /\ pc' = IF r.exc THEN "raised" ELSE "returned"
    /\ UNCHANGED <<callFrame, tracking_file>>

RECURSIVE row_data(_)
\* lines 397-408: empty cells and cells float() rejects are passed over
row_data(row) ==
    IF row = <<>> THEN <<>>
    ELSE IF Strip(Head(row)) = "" THEN row_data(Tail(row))
    ELSE IF float(Head(row)).exc THEN row_data(Tail(row))
    ELSE <<float(Head(row)).val>> \o row_data(Tail(row))

RECURSIVE row_data_continuous(_)
\* lines 456-467: empty cells are passed over, a cell float() rejects adds None
row_data_continuous(row) ==
    IF row = <<>> THEN <<>>
    ELSE IF Strip(Head(row)) = "" THEN row_data_continuous(Tail(row))
    ELSE IF float(Head(row)).exc THEN <<NULL>> \o row_data_continuous(Tail(row))
    ELSE <<float(Head(row)).val>> \o row_data_continuous(Tail(row))

\* power_data_downloader_utils.py, lines 362-413: table.find_all raises when
\* the table is absent; rows without data are left out
extract_volume_and_price_data(soup) ==
    IF ~soup.found THEN Raised
    ELSE Returned(SelectSeq([i \in 1..Len(soup.rows) |-> row_data(soup.rows[i])],
                            LAMBDA r : r # <<>>))

\* power_data_downloader_utils.py, lines 415-474
extract_volume_and_price_data_continuous(soup) ==
    IF ~soup.found THEN Raised
    ELSE Returned(SelectSeq([i \in 1..Len(soup.rows) |-> row_data_continuous(soup.rows[i])],
                            LAMBDA r : Len(r) # 0))

\* power_data_downloader_utils.py, lines 362-413
CallExtractVolumeAndPrice ==
    /\ pc = "call"
    /\ loc.fn = "extract_volume_and_price_data"
    /\ LET r == extract_volume_and_price_data(loc.soup)
       IN  /\ loc' = WithResult(loc, r)
           /\ pc' = IF r.exc THEN "raised" ELSE "returned"
    /\ UNCHANGED <<callFrame, tracking_file>>

\* power_data_downloader_utils.py, lines 415-474
CallExtractVolumeAndPriceContinuous ==
    /\ pc = "call"
    /\ loc.fn = "extract_volume_and_price_data_continuous"
    /\ LET r == extract_volume_and_price_data_continuous(loc.soup)
       IN  /\ loc' = WithResult(loc, r)
           /\ pc' = IF r.exc THEN "raised" ELSE "returned"
    /\ UNCHANGED <<callFrame, tracking_file>>

\* power_data_downloader_architecture.py, lines 362-412
CallAssembleContinuous ==
    /\ pc = "call"
    /\ loc.fn = "assemble_continuous"
    /\ LET r == AssembleContinuousRows(CallMeta(loc), loc.market_area, loc.hours,
                                       loc.continuous_data, Indicators(loc.headers))
       IN  /\ loc' = WithResult(loc, r)
           /\ pc' = IF r.exc THEN "raised" ELSE "returned"
    /\ UNCHANGED <<callFrame, tracking_file>>

NextCalls ==
    \/ CallUpdateTrackingFile
    \/ CallWriteTrackingRow
    \/ CallPlausibilityChecks
    \/ CallCheckArchive
    \/ CallCheckExistingCombinations
    \/ CallLabelCleaning
    \/ CallExtractHoursContinous
    \/ CallExtractVolumeAndPrice
    \/ CallExtractVolumeAndPriceContinuous
    \/ CallAssembleContinuous

SpecCalls == InitCalls /\ [][NextCalls]_vars

\* the call of the behaviour has ended
Called(fn) == loc.fn = fn /\ pc \in {"returned", "raised"}

\* C11: recording an entry in a tracking file that exists leaves the header of
\* the file as it was whatever header_row is, puts the entry first among the
\* data rows and keeps the earlier data rows in their order; recording in a
\* file that does not exist gives header_row followed by the entry.  This is
\* so for every file that exists, one without any row included.
C11_LedgerRecord ==
    (Called("update_tracking_file") \/ Called("download_data.tracking"))
        => LET old    == ledger_at_start.rows
               header == SubSeq(old, 1, Min(1, Len(old)))
               before == SubSeq(old, 2, Len(old))
           IN  /\ pc = "returned"
               /\ tracking_file.exists
               /\ tracking_file.rows =
                    IF ledger_at_start.exists
                    THEN header \o <<loc.tracking_data>> \o before
                    ELSE <<loc.header_row, loc.tracking_data>>

\* the WebsiteAccessTimeUTC cells of the data rows of a ledger, top to bottom
AccessTimes(file) ==
    [i \in 1..Len(DataRows(file)) |->
        DataRows(file)[i][Len(DataRows(file)[i]) - 1]]

\* C12: over the runs of download(), no step modifies or removes an entry of
\* the ledger or its header, every new entry is put right below the header,
\* and whenever no attempt is under way the data rows are the attempts made so
\* far, the latest first.
C12_LedgerHistory ==
    [][/\ tracking_file.exists
          => /\ tracking_file'.exists
             /\ tracking_file'.rows[1] = tracking_file.rows[1]
             /\ \/ tracking_file' = tracking_file
                \/ Tail(DataRows(tracking_file')) = DataRows(tracking_file)
       /\ ~InAttempt'
          => AccessTimes(tracking_file') = [i \in 1..clock' |-> ToString(clock' - i)]]_vars

-----------------------------------------------------------------------------
(* The two drivers side by side: a behaviour of SpecBoth is a sequence of runs
   of download() or a sequence of runs of download_data(), told apart by the
   spelling of type. *)

InitBoth == Init \/ InitData

NextBoth ==
    \/ type \in Types /\ Next
    \/ type \in DataTypes /\ NextData

SpecBoth == InitBoth /\ [][NextBoth]_vars

\* the rows of a are the first rows of b, in the same order
IsPrefix(a, b) == Len(a) <= Len(b) /\ SubSeq(b, 1, Len(a)) = a

\* C13: no step of a run of either driver removes an archive file or changes it
\* otherwise than by adding rows below the rows it holds, which stay as they
\* are and in their order.
C13_ArchiveAppendOnly ==
    [][\A p \in DOMAIN archives :
        /\ archives[p].exists => archives'[p].exists
        /\ IsPrefix(archives[p].rows, archives'[p].rows)]_vars

\* C13, reached: download() has just appended the hours table of an attempt to
\* an hours archive that held rows before
C13_ArchiveGrown ==
    /\ type \in {"dayahead", "intraday"}
    /\ pc = "write_base_peak"
    /\ success_indicator = "Success"
    /\ loc.hours_data_df # <<>>
    /\ LET file == archives[ArchivePath(market_area, type, "hours")]
       IN  /\ file.exists
           /\ Len(DataRows(file)) > Len(loc.hours_data_df)

-----------------------------------------------------------------------------
(* Properties of the loops of download(), checked under Spec. *)

\* the date pair of a combination
DatePairOf(c) == <<c.trading_date, c.delivery_date>>

\* the combinations of one date pair stand next to each other, and among them
\* the combinations of one market area stand next to each other
NestedOrder(cs) ==
    \A i, j, k \in 1..Len(cs) :
        (i < j /\ j < k) =>
            /\ DatePairOf(cs[i]) = DatePairOf(cs[k]) => DatePairOf(cs[j]) = DatePairOf(cs[i])
            /\ (DatePairOf(cs[i]) = DatePairOf(cs[k]) /\ cs[i].market_area = cs[k].market_area)
                  => cs[j].market_area = cs[i].market_area

\* the ledger holds an entry of the key, whatever its outcome
HasAnyEntry(file, key) ==
    \E i \in 1..Len(DataRows(file)) : SubSeq(DataRows(file)[i], 1, Len(key)) = key

C15_Pace ==
    [][/\ pc = "track" => (pc' = "pace" /\ Len(DataRows(tracking_file')) = Len(DataRows(tracking_file)) + 1)
       /\ pc' = "pace" => pc = "track"
       /\ pc = "pace" => (pc' = "loop" /\ idx' = idx + 1)
       /\ (InAttempt /\ ~InAttempt') => pc' = "pace"
       /\ (pc = "loop" /\ idx <= Len(combos) /\ archive_check) => (pc' = "loop" /\ idx' = idx + 1)]_vars

\* every cell of the table is missing
AllCellsMissing(df) == \A i \in 1..Len(df) : \A j \in 1..Len(df[i]) : IsNa(df[i][j])

\* C16: plausibility_checks(table) is False when the table has no row, when
\* every cell is missing or when some column is missing in every row, and True
\* in every other case.
C16_Plausibility ==
    Called("plausibility_checks")
        => /\ pc = "returned"
           /\ loc.result = ~(ZeroRows(loc.df) \/ AllCellsMissing(loc.df)
                                \/ FailsPlausibility(loc.df))

\* C16, reached: the table of columns A, B with rows (1, None), (2, None) has
\* been found implausible
C16_ColumnMissing ==
    /\ Called("plausibility_checks")
    /\ loc.df = << <<"1", NULL>>, <<"2", NULL>> >>
    /\ loc.result = FALSE

\* a row of a frame cut down to the match columns, in their order
Projected(header, row, match_columns) ==
    [k \in 1..Len(match_columns) |-> row[ColIndex(header, match_columns[k])]]

\* C17: check_archive and check_existing_combinations return True exactly when
\* some row of the archive, cut down to the match columns, equals the key in
\* every field, whatever the other columns hold, however often the row occurs
\* and wherever it stands.
C17_ExistenceCheck ==
    (Called("check_archive") \/ Called("check_existing_combinations"))
        => /\ pc = "returned"
           /\ loc.result =
                (\E i \in 1..Len(loc.archive_df.data) :
                    Projected(loc.archive_df.header, loc.archive_df.data[i],
                              loc.columns_to_check) = loc.combination)

\* C17, reached: check_archive has found the key (DE, d) in rows (DE, d, 5),
\* (FR, d, 5), (DE, d, 5)
C17_FoundAmongDuplicates ==
    /\ Called("check_archive")
    /\ loc.archive_df.data = << <<"DE", DateObj("2025-01-14"), "5">>,
                                <<"FR", DateObj("2025-01-14"), "5">>,
                                <<"DE", DateObj("2025-01-14"), "5">> >>
    /\ loc.combination = <<"DE", DateObj("2025-01-14")>>
    /\ loc.result = TRUE

\* C18: for every type that takes an auction label the cleaning turns a market
\* area holding GB into "GB", "SDAC" into "MRC", "GB DAA 1 (60')" into "GB",
\* "GB DAA 2 (30')" into "30-call-GB", "SIDC IDA1", "SIDC IDA2", "SIDC IDA3"
\* into "IDA1", "IDA2", "IDA3", and leaves every other label as it is.
C18_LabelCleaning ==
    Called("label_cleaning")
        => /\ loc.result.market_area =
                (IF "GB" = SubSeq(loc.market_area, 1, 2) THEN "GB" ELSE loc.market_area)
           /\ loc.result.value_clean =
                (CASE loc.value = "SDAC"           -> "MRC"
                   [] loc.value = "GB DAA 1 (60')" -> "GB"
                   [] loc.value = "GB DAA 2 (30')" -> "30-call-GB"
                   [] loc.value = "SIDC IDA1"      -> "IDA1"
                   [] loc.value = "SIDC IDA2"      -> "IDA2"
                   [] loc.value = "SIDC IDA3"      -> "IDA3"
                   [] OTHER                        -> loc.value)

-----------------------------------------------------------------------------
(* Properties of the row assembly of both drivers, checked under SpecBoth. *)

\* rows pairs the hour labels and the numeric rows by position, n of them
PairedByPosition(rows, meta, hours, data, n) ==
    /\ Len(rows) = n
    /\ \A i \in 1..n : rows[i] = meta \o <<hours[i]>> \o data[i]

\* the assembly of download() is about to run
AssemblyRuns == type \in Types /\ pc = "assemble" /\ success_indicator # "Error"

\* the assembly of download_data() is about to run
DataAssemblyRuns ==
    type \in DataTypes /\ pc = "merge_hourly" /\ loc.num_hours_records # "Error"

\* C19 as claimed: when the hour labels and the numeric rows differ in number,
\* whichever is longer, the assembly raises no error and pairs them by
\* position up to the shorter of the two.
C19_ZipTruncation ==
    [][/\ (AssemblyRuns /\ Len(loc.hours) # Len(loc.table_data))
          => /\ success_indicator' = success_indicator
             /\ PairedByPosition(loc'.hours_data_list, Meta, loc.hours, loc.table_data,
                                 Min(Len(loc.hours), Len(loc.table_data)))
       /\ (DataAssemblyRuns /\ Len(loc.hours) # Len(loc.hourly_data))
          => /\ pc' # "aborted"
             /\ PairedByPosition(loc'.hourly_data_df, DataMeta, loc.hours, loc.hourly_data,
                                 Min(Len(loc.hours), Len(loc.hourly_data)))]_vars

\* C19 amended: the assembly walks the numeric rows and takes the hour label
\* of the same position.  With no more numeric rows than hour labels it raises
\* nothing and gives one record per numeric row, the surplus labels dropped
\* (in download_data() unless writing the archive ends the run); with more
\* numeric rows than hour labels it raises, the hourly part of the attempt
\* becomes an Error, or the run of download_data() ends, and no archive
\* changes in the step.
C19_AssemblyByIndex ==
    [][/\ (AssemblyRuns /\ Len(loc.table_data) <= Len(loc.hours))
          => /\ success_indicator' = success_indicator
             /\ PairedByPosition(loc'.hours_data_list, Meta, loc.hours, loc.table_data,
                                 Len(loc.table_data))
       /\ (AssemblyRuns /\ Len(loc.table_data) > Len(loc.hours))
          => /\ success_indicator' = "Error"
             /\ archives' = archives
       /\ (DataAssemblyRuns /\ Len(loc.hourly_data) <= Len(loc.hours))
          => (pc' = "base_peak"
                => PairedByPosition(loc'.hourly_data_df, DataMeta, loc.hours,
                                    loc.hourly_data, Len(loc.hourly_data)))
       /\ (DataAssemblyRuns /\ Len(loc.hourly_data) > Len(loc.hours))
          => /\ archives' = archives
             /\ pc' = "aborted" \/ loc'.num_hours_records = "Error"]_vars

\* C19, reached: download() has assembled one record from two hour labels and
\* one numeric row
C19_SurplusHours ==
    /\ type \in Types
    /\ pc = "base_peak"
    /\ success_indicator # "Error"
    /\ Len(loc.hours) = 2
    /\ Len(loc.table_data) = 1
    /\ Len(loc.hours_data_list) = 1

\* a top-level hour block, and a sub-interval block, of a document
HourBlock(b) == b.tag = "li" /\ \E i \in DOMAIN b.class : b.class[i] = "child"

SubInterval(b) == \E i \in DOMAIN b.class : b.class[i] \in {"lvl-1", "lvl-2"}

\* the labels of the blocks at the positions of keep, in document order
RECURSIVE LabelsAt(_, _, _)
LabelsAt(blocks, keep, i) ==
    IF i > Len(blocks) THEN <<>>
    ELSE (IF i \in keep THEN <<Strip(blocks[i].a)>> ELSE <<>>)
         \o LabelsAt(blocks, keep, i + 1)

\* block i follows the hour block h with no element of class child from h to i
FollowsHour(blocks, h, i) ==
    /\ h < i
    /\ HourBlock(blocks[h])
    /\ \A k \in (h + 1)..i : \A c \in DOMAIN blocks[k].class : blocks[k].class[c] # "child"

\* the positions whose blocks extract_hours_continous reads the anchor of
Visited(blocks) ==
    {i \in DOMAIN blocks :
        \/ HourBlock(blocks[i])
        \/ SubInterval(blocks[i]) /\ \E h \in DOMAIN blocks : FollowsHour(blocks, h, i)}

\* C20: extract_hours_continous returns the labels of all hour blocks and of
\* all sub-interval blocks of the container, one label for each of them, in
\* document order, and no label of a block of another kind (every block having
\* an anchor)
C20_Interleaving ==
    (/\ Called("extract_hours_continous")
     /\ loc.soup.found
     /\ \A i \in DOMAIN loc.soup.hours_div : loc.soup.hours_div[i].a # NULL)
        => LET blocks == loc.soup.hours_div
               keep   == {i \in DOMAIN blocks : HourBlock(blocks[i]) \/ SubInterval(blocks[i])}
           IN  /\ pc = "returned"
               /\ loc.result.val = LabelsAt(blocks, keep, 1)

\* C20 as the code has it: without a container the result is empty; otherwise
\* the result is the stripped anchor texts, in document order, of the hour
\* blocks and of the sub-interval blocks that follow an hour block with no
\* element of class child in between; a sub-interval block before the first
\* hour block, or behind an element of class child that is no hour block,
\* adds no label, nor does a block of another kind; the call raises when one
\* of the blocks it reads has no anchor
C20_InterleavingAfterHour ==
    Called("extract_hours_continous")
        => IF ~loc.soup.found
           THEN pc = "returned" /\ loc.result.val = <<>>
           ELSE LET blocks == loc.soup.hours_div
                IN  IF \E i \in Visited(blocks) : blocks[i].a = NULL
                    THEN pc = "raised"
                    ELSE /\ pc = "returned"
                         /\ loc.result.val = LabelsAt(blocks, Visited(blocks), 1)

\* an hour block between two sub-interval blocks: only the second is listed
C20_IntervalBeforeFirstHour ==
    /\ Called("extract_hours_continous")
    /\ pc = "returned"
    /\ loc.soup.found
    /\ Len(loc.soup.hours_div) = 3
    /\ SubInterval(loc.soup.hours_div[1])
    /\ HourBlock(loc.soup.hours_div[2])
    /\ SubInterval(loc.soup.hours_div[3])
    /\ loc.result.val = <<Strip(loc.soup.hours_div[2].a), Strip(loc.soup.hours_div[3].a)>>
    /\ loc.result.val = <<"01 - 02", "00:00 - 00:15">>

\* the number a cell text stands for, when it stands for one
Parses(text) == text \in {" 1,000 "}

NumberOf(text) == IF text = " 1,000 " THEN "1000.0" ELSE NULL

\* the parsed numbers of a table row, in the order of the row
RECURSIVE ParsedNumbers(_)
ParsedNumbers(row) ==
    IF row = <<>> THEN <<>>
    ELSE (IF Parses(Head(row)) THEN <<NumberOf(Head(row))>> ELSE <<>>)
         \o ParsedNumbers(Tail(row))

\* the output rows extraction keeps
RECURSIVE NonEmptyRows(_)
NonEmptyRows(rows) ==
    IF rows = <<>> THEN <<>>
    ELSE (IF Head(rows) = <<>> THEN <<>> ELSE <<Head(rows)>>) \o NonEmptyRows(Tail(rows))

\* C21: the non-continuous extraction gives for each table row its parsed
\* numbers only, cells that fail to parse being dropped; the continuous
\* extraction gives for the k-th cell of a row the k-th entry of the output
\* row, the number of the cell or the missing marker, whatever the cells
\* before it hold
C21_NumericExtraction ==
    /\ (Called("extract_volume_and_price_data") /\ loc.soup.found)
          => /\ pc = "returned"
             /\ loc.result.val =
                  NonEmptyRows([i \in 1..Len(loc.soup.rows) |-> ParsedNumbers(loc.soup.rows[i])])
    /\ (Called("extract_volume_and_price_data_continuous") /\ loc.soup.found)
          => /\ pc = "returned"
             /\ loc.result.val =
                  NonEmptyRows([i \in 1..Len(loc.soup.rows) |->
                                  [k \in 1..Len(loc.soup.rows[i]) |->
                                      NumberOf(loc.soup.rows[i][k])]])

\* C22: a page whose Peakload cell shows "-" beside a numeric Baseload cell is
\* extracted as the number and the text "-"; with that result the base/peak
\* step of download() raises no error and builds the row with "-" as peakload,
\* and the row written to the base/peak archive holds "-" in its last column
C22_PeakloadSentinel ==
    /\ [](\A soup \in BasePeakPages :
            (soup.peakload = "-" /\ soup.baseload = " 50.0 ")
                => extract_baseload_peakload(soup) = Returned(<<"50.0", "-">>))
    /\ [][((pc = "base_peak" /\ success_indicator # "Error"
                /\ loc'.peakload = "-" /\ loc'.baseload = "50.0")
            => (/\ success_indicator' = success_indicator
                /\ pc' = "frames"
                /\ loc'.base_peak_data_list = <<Meta \o <<"50.0", "-">>>>))
          /\
           ((pc = "write_base_peak" /\ loc.peakload = "-" /\ loc.baseload = "50.0"
                /\ archives' # archives)
            => LET rows == archives'[ArchivePath(market_area, type, "base_peak")].rows
               IN  /\ rows[Len(rows)][8] = "50.0"
                   /\ rows[Len(rows)][9] = "-"
                   /\ success_indicator' = "Success")]_vars

\* C22, reached: an attempt has archived a base/peak row with the peakload "-"
C22_SentinelArchived ==
    /\ type \in {"dayahead", "intraday"}
    /\ pc = "track"
    /\ success_indicator = "Success"
    /\ loc.peakload = "-"
    /\ LET file == archives[ArchivePath(market_area, type, "base_peak")]
       IN  /\ file.exists
           /\ file.rows[Len(file.rows)][9] = "-"

\* a last-update text the guard rejects: none, empty or shorter than 10
BadLastUpdate(text) == text = NULL \/ Len(text) < 10

\* C23: in both drivers an attempt whose last-update text is missing, empty or
\* shorter than 10 characters goes on to its ledger entry with nothing further
\* extracted or appended, and the entry shows "Error"
C23_LastUpdateGuard ==
    [][((type \in Types /\ pc = "last_update" /\ BadLastUpdate(loc'.last_update))
        => (success_indicator' = "Error" /\ pc' = "track" /\ archives' = archives))
       /\
       ((type \in Types /\ pc = "track" /\ BadLastUpdate(loc.last_update))
        => tracking_file'.rows[2][Len(tracking_file'.rows[1])] = "Error")
       /\
       ((type \in DataTypes /\ pc = "last_update" /\ "soup" \in loc.bound
            /\ (loc.soup.exc \/ Len(loc.soup.val) < 10))
        => (/\ pc' = "hours"
            /\ loc'.num_hours_records = "Error"
            /\ loc'.base_peak_sucess = "Error"
            /\ archives' = archives))
       /\
       ((type \in DataTypes /\ pc \in {"hours", "base_peak"}
            /\ loc.num_hours_records = "Error" /\ loc.base_peak_sucess = "Error")
        => (pc' \in {"base_peak", "track"} /\ loc' = loc /\ archives' = archives))
       /\
       ((type \in DataTypes /\ pc = "track"
            /\ loc.num_hours_records = "Error" /\ loc.base_peak_sucess = "Error")
        => (/\ tracking_file'.rows[2][8] = "Error"
            /\ tracking_file'.rows[2][9] = "Error"))]_vars

\* the attempt is one for aggregated curves
CurvesAttempt == type \in {"aggregated_curves_dayahead", "aggregated_curves_intraday"}

\* C24: every aggregated-curve row built from a payload carries the day of its
\* point as delivery date, whether or not it is the requested day, and so does
\* the row written to the archive; the ledger entry of the attempt carries the
\* requested delivery date
C24_CurveDeliveryDate ==
    [][((CurvesAttempt /\ pc = "parse_json" /\ pc' # "aborted")
        => (/\ Len(loc'.data_list) = Len(loc'.demand_and_supply)
            /\ \A i \in 1..Len(loc'.data_list) :
                  /\ loc'.data_list[i][3] = DateObj(loc'.demand_and_supply[i].day)
                  /\ loc'.data_list[i][2] = DateObj(StrfTime(trading_date))))
       /\
       ((CurvesAttempt /\ pc = "write" /\ archives' # archives)
        => LET rows == archives'[ArchivePath(market_area, type, "")].rows
               n    == Len(loc.demand_and_supply)
           IN  /\ n > 0
               /\ Len(rows) > n
               /\ \A i \in 1..n :
                     rows[Len(rows) - n + i][3] = loc.demand_and_supply[i].day)
       /\
       ((CurvesAttempt /\ pc = "track")
        => tracking_file'.rows[2][3] = StrfTime(delivery_date))]_vars

\* C24, reached: an archived aggregated-curve row carries a delivery date that
\* is not the requested one, which the ledger entry of the attempt carries
C24_DatesDiffer ==
    /\ CurvesAttempt
    /\ pc = "pace"
    /\ success_indicator = "Success"
    /\ loc.demand_and_supply # <<>>
    /\ loc.demand_and_supply[1].day # StrfTime(delivery_date)
    /\ LET rows == archives[ArchivePath(market_area, type, "")].rows
       IN  rows[Len(rows)][3] = loc.demand_and_supply[1].day
    /\ tracking_file.rows[2][3] = StrfTime(delivery_date)

\* the column of the continuous archive that belongs to a header of the page
ColumnOfHeader ==
    ("Low" :> 7) @@ ("High" :> 8) @@ ("Last" :> 9) @@ ("Weight Avg." :> 10) @@
    ("ID Full" :> 11) @@ ("ID1" :> 12) @@ ("ID3" :> 13) @@ ("Buy Volume" :> 14) @@
    ("Sell Volume" :> 15) @@ ("Volume" :> 16)

\* the page of a call shows the header
Rendered(call, header) == \E k \in DOMAIN call.headers : call.headers[k] = header

\* a page of another area than GB, without RPD headers, whose numeric row has
\* one value for every header
AlignedPage(call) ==
    /\ call.market_area # "GB"
    /\ ~Rendered(call, "RPD")
    /\ Len(call.continuous_data[1]) = Len(call.headers)

\* C25: for every set of optional headers ID Full, ID1, ID3 a page of another
\* area than GB shows, a numeric row with one value per header is assembled
\* into a row of 18 fields: the value of each header the page shows stands in
\* the column of that header, and the column of an optional header the page
\* does not show is null
C25_ColumnAlignment ==
    (Called("assemble_continuous") /\ AlignedPage(loc))
        => /\ pc = "returned"
           /\ Len(loc.result.val) = 1
           /\ LET row == loc.result.val[1]
              IN  /\ Len(row) = 18
                  /\ SubSeq(row, 1, 6) = CallMeta(loc) \o <<"00 - 01">>
                  /\ \A h \in DOMAIN ColumnOfHeader :
                        row[ColumnOfHeader[h]] =
                            IF Rendered(loc, h) THEN "v:" \o h ELSE NULL

\* C25, reached: a page showing ID1 alone among the optional headers
C25_OnlyID1 ==
    /\ Called("assemble_continuous")
    /\ AlignedPage(loc)
    /\ Rendered(loc, "ID1") /\ ~Rendered(loc, "ID Full") /\ ~Rendered(loc, "ID3")
    /\ pc = "returned"
    /\ loc.result.val[1][11] = NULL
    /\ loc.result.val[1][12] = "v:ID1"
    /\ loc.result.val[1][13] = NULL
    /\ loc.result.val[1][14] = "v:Buy Volume"

\* the data rows of the continuous archives
ContinuousArchiveRows ==
    UNION {Range(SubSeq(archives[p].rows, 2, Len(archives[p].rows))) :
             p \in {q \in DOMAIN archives : archives[q].exists}}

\* the text GB stands in the name of the market area
IsGB(area) == \E i \in 1..(Len(area) - 1) : SubSeq(area, i, i + 1) = "GB"

\* the position of a header among the headers of the page, 0 when not shown
HeaderPosition(headers, header) ==
    IF \E k \in DOMAIN headers : headers[k] = header
    THEN CHOOSE k \in DOMAIN headers : headers[k] = header
    ELSE 0

\* C26: in every row of a continuous archive the fields RPD and RPD HH are
\* empty unless the market area is GB, and in a row of GB the fields ID1 and
\* ID3 are empty; a GB page that shows the RPD headers, with one value per
\* header in its rows, is assembled into rows that hold its two RPD values in
\* the fields RPD and RPD HH, and those are the values the archive receives
C26_GBOnlyFields ==
    /\ [](type = "continuous"
            => \A row \in ContinuousArchiveRows :
                  /\ Len(row) = 18
                  /\ ~IsGB(row[1]) => (row[17] = "" /\ row[18] = "")
                  /\ IsGB(row[1]) => (row[12] = "" /\ row[13] = ""))
    /\ [][((/\ type = "continuous"
             /\ pc = "assemble_continuous"
             /\ IsGB(market_area)
             /\ HeaderPosition(loc.headers, "RPD") # 0
             /\ HeaderPosition(loc.headers, "RPD HH") # 0
             /\ Len(loc.table_data) <= Len(loc.hours)
             /\ \A i \in DOMAIN loc.table_data :
                   Len(loc.table_data[i]) = Len(loc.headers))
            => (/\ success_indicator' = success_indicator
                /\ Len(loc'.data_list) = Len(loc.table_data)
                /\ \A i \in DOMAIN loc.table_data :
                      /\ loc'.data_list[i][17] =
                            loc.table_data[i][HeaderPosition(loc.headers, "RPD")]
                      /\ loc'.data_list[i][18] =
                            loc.table_data[i][HeaderPosition(loc.headers, "RPD HH")]
                      /\ loc'.data_list[i][12] = NULL
                      /\ loc'.data_list[i][13] = NULL))
           /\
           ((type = "continuous" /\ pc = "write" /\ archives' # archives)
            => LET rows == archives'[ArchivePath(market_area, type, "")].rows
                   n    == Len(loc.data_list)
               IN  /\ Len(rows) > n
                   /\ \A i \in 1..n : \A j \in {12, 13, 17, 18} :
                         rows[Len(rows) - n + i][j] =
                            (IF loc.data_list[i][j] = NULL THEN "" ELSE loc.data_list[i][j]))]_vars

\* C26, reached: the GB archive holds a row with the RPD values of its page
C26_GBRowArchived ==
    /\ type = "continuous"
    /\ pc = "track"
    /\ market_area = "GB"
    /\ success_indicator = "Success"
    /\ \E row \in ContinuousArchiveRows :
          row[1] = "GB" /\ row[17] = "6.0" /\ row[18] = "7.0" /\ row[12] = ""

\* the positions, among the data rows of the ledger, of the entries of the key
\* whose outcome is one of outcomes
EntryPositions(file, key, outcomes) ==
    {i \in 1..Len(DataRows(file)) :
        /\ SubSeq(DataRows(file)[i], 1, Len(key)) = key
        /\ DataRows(file)[i][Len(DataRows(file)[i])] \in outcomes}

\* C27: in download a combination with a ledger row whose outcome is not
\* "Error" is skipped, also when it has Error rows and whatever the order of
\* the rows; a combination with Error rows only or with no row is attempted.
C27_MixedOutcomes ==
    [][(pc = "loop" /\ idx <= Len(combos)) =>
          IF HasNonErrorEntry(ledger_at_start, LedgerKey(type, combos[idx]))
          THEN /\ pc' = "loop"
               /\ idx' = idx + 1
               /\ attempted' = attempted
               /\ tracking_file' = tracking_file
               /\ archives' = archives
          ELSE /\ pc' = "fetch"
               /\ idx' = idx]_vars

\* a combination has been skipped whose ledger entries at the start of the
\* run are an Error entry above a Success entry
C27_SkippedAfterLaterError ==
    /\ pc = "loop"
    /\ idx > 1
    /\ attempted = 0
    /\ \E i \in EntryPositions(ledger_at_start, LedgerKey(type, combos[idx - 1]), {"Error"}) :
          \E j \in EntryPositions(ledger_at_start, LedgerKey(type, combos[idx - 1]), {"Success"}) :
              i < j

\* the ledger entry written by the step is the one of the combination, with
\* outcome Error, and it is the only row the step adds
OneErrorEntry ==
    /\ Len(DataRows(tracking_file')) = Len(DataRows(tracking_file)) + 1
    /\ HasEntry(File(<<tracking_file'.rows[1], tracking_file'.rows[2]>>),
                LedgerKey(type, combos[idx]), {"Error"})

\* C28: for aggregated curves in download, an attempt whose JSON element is
\* missing or whose payload is malformed appends nothing to the archive, gets
\* one ledger entry with outcome Error, raises the error count by one and is
\* followed by the next combination.
C28_CurvePayloadFailure ==
    [][((CurvesAttempt /\ pc \in {"script_tag", "parse_json"}
            /\ pc' \notin {"parse_json", "frame"})
        => (/\ pc' = "track"
            /\ success_indicator' = "Error"
            /\ archives' = archives
            /\ idx' = idx))
       /\
       ((CurvesAttempt /\ pc = "track" /\ loc.data_list = NoLocals.data_list
            /\ success_indicator = "Error")
        => (/\ OneErrorEntry
            /\ total_error_count' = total_error_count + 1
            /\ archives' = archives
            /\ pc' = "pace"))
       /\
       ((CurvesAttempt /\ pc = "pace")
        => (pc' = "loop" /\ idx' = idx + 1 /\ archives' = archives))]_vars

\* C29: for continuous data in download, an attempt whose extraction of the
\* numeric table raises appends nothing to the archive, gets one ledger entry
\* with outcome Error and is followed by the next combination.
C29_ContinuousTableFailure ==
    [][((type = "continuous" /\ pc = "continuous_data" /\ pc' # "headers")
        => (/\ pc' = "track"
            /\ success_indicator' = "Error"
            /\ archives' = archives
            /\ idx' = idx))
       /\
       ((type = "continuous" /\ pc = "track" /\ success_indicator = "Error")
        => (OneErrorEntry /\ archives' = archives /\ pc' = "pace"))
       /\
       ((type = "continuous" /\ pc = "pace")
        => (pc' = "loop" /\ idx' = idx + 1 /\ archives' = archives))]_vars

\* both outcomes of the attempt of download_data are "Error"
BothError(l) == l.num_hours_records = "Error" /\ l.base_peak_sucess = "Error"

\* C30: in download_data an attempt whose page fetch fails, the first attempt
\* of a run included, appends no row to either archive, gets one tracking
\* entry with "Error" for the hourly and the base/peak outcome, and is
\* followed by the next combination.
C30_FetchFailure ==
    [][((pc = "fetch" /\ loc'.num_hours_records = "Error")
        => (pc' = "last_update" /\ BothError(loc') /\ archives' = archives))
       /\
       ((pc = "last_update" /\ BothError(loc))
        => (pc' = "hours" /\ BothError(loc') /\ archives' = archives /\ idx' = idx))
       /\
       ((pc \in {"hours", "base_peak"} /\ BothError(loc))
        => (pc' \in {"base_peak", "track"} /\ BothError(loc') /\ archives' = archives))
       /\
       ((pc = "track" /\ BothError(loc))
        => (/\ Len(DataRows(tracking_file')) = Len(DataRows(tracking_file)) + 1
            /\ tracking_file'.rows[2][8] = "Error"
            /\ tracking_file'.rows[2][9] = "Error"
            /\ archives' = archives
            /\ pc' = "pace"))
       /\
       ((pc = "pace" /\ BothError(loc))
        => (pc' = "loop" /\ idx' = idx + 1 /\ archives' = archives))]_vars

\* the attempt is one for the tables of an auction
AuctionAttempt == type \in {"dayahead", "intraday"}

\* the driver stands before a call of an extraction function on the page
BeforeExtraction == pc \in {"last_update", "hours", "volume", "base_peak"}

\* C31: in download for dayahead/intraday, once a sub-step of an attempt has
\* failed no later extraction step of the attempt is invoked on the page, and
\* the outcome of the attempt stays Error up to its ledger entry.
C31_ShortCircuit ==
    /\ [](AuctionAttempt /\ BeforeExtraction => success_indicator # "Error")
    /\ [][((AuctionAttempt /\ InAttempt /\ pc # "fetch" /\ success_indicator = "Error")
           => (success_indicator' = "Error" /\ archives' = archives))
          /\
          ((AuctionAttempt /\ pc = "track" /\ success_indicator = "Error")
           => tracking_file'.rows[2][Len(tracking_file'.rows[1])] = "Error")]_vars

\* the page has no list element of class child
NoHourBlocks(soup) ==
    ~\E k \in 1..Len(soup.hours_div) :
        soup.hours_div[k].tag = "li" /\ "child" \in Range(soup.hours_div[k].class)

\* every page a run of download() may get
AnyHoursPage == HoursPages \cup ContinuousHoursPages

\* the attempt is one for continuous data whose page gave no hour label
\* without an error
EmptyHours(l) == extract_hours_continous(l.soup) = Returned(<<>>)

\* the driver records an attempt without hour labels as Error
EmptyHoursRecorded ==
    [][((type = "continuous" /\ pc = "hours_continuous" /\ EmptyHours(loc'))
        => (success_indicator' = "Error" /\ pc' = "track" /\ archives' = archives))
       /\
       ((type = "continuous" /\ pc = "track" /\ Len(loc.last_update) >= 10
            /\ EmptyHours(loc))
        => tracking_file'.rows[2][Len(tracking_file'.rows[1])] = "Error")]_vars

\* C32: hours extraction fails with an error when the container of the hour
\* list is absent, in both variants; the continuous variant returns an empty
\* sequence without error only when the container exists and holds no hour
\* block, and the driver records that attempt as Error.
C32_AbsentContainer ==
    /\ [](\A soup \in AnyHoursPage :
            /\ ~soup.found => (extract_hours(soup).exc /\ extract_hours_continous(soup).exc)
            /\ extract_hours_continous(soup) = Returned(<<>>)
                  => (soup.found /\ NoHourBlocks(soup)))
    /\ EmptyHoursRecorded

\* C32, as the code has it: when the container is absent extract_hours raises
\* and extract_hours_continous returns an empty sequence without error, as it
\* does when the container holds no hour block; the driver records the attempt
\* of an empty sequence as Error.
C32_AbsentContainerIsEmpty ==
    /\ [](\A soup \in AnyHoursPage :
            /\ ~soup.found => (/\ extract_hours(soup).exc
                               /\ extract_hours_continous(soup) = Returned(<<>>))
            /\ extract_hours_continous(soup) = Returned(<<>>)
                  <=> (~soup.found \/ NoHourBlocks(soup)))
    /\ EmptyHoursRecorded

\* a continuous attempt whose page has no container stands before its ledger
\* entry with outcome Error
C32_AbsentContainerTracked ==
    /\ type = "continuous"
    /\ pc = "track"
    /\ Len(loc.last_update) >= 10
    /\ ~loc.soup.found
    /\ loc.hours = <<>>
    /\ success_indicator = "Error"

\* C33: in download_data the pacing delay is observed after every attempted
\* combination, before the next one, and is not observed after a combination
\* that is skipped because both archives hold its key.
C33_PaceOnlyAfterAttempt ==
    [][((pc = "loop" /\ idx <= Len(combos) /\ InHourlyArchive /\ InBasePeakArchive)
        => pc' # "pace")
       /\
       ((Running /\ idx' = idx + 1) => pc = "pace")]_vars

\* the tables of the attempt, each with the kind of archive it belongs to
FamilyTables ==
    IF type \in {"dayahead", "intraday"}
    THEN {<<"hours", loc.hours_data_df>>, <<"base_peak", loc.base_peak_data_df>>}
    ELSE {<<"", loc.data_df>>}

\* a table as an archive file shows its rows
ArchivedRows(df) == [i \in 1..Len(df) |-> [j \in 1..Len(df[i]) |-> CsvCell(df[i][j])]]

\* the last rows of rows are the rows of tail
EndsWith(rows, tail) ==
    /\ Len(tail) <= Len(rows)
    /\ SubSeq(rows, Len(rows) - Len(tail) + 1, Len(rows)) = tail

\* the step appends the table of the attempt to the archive of the kind
Appends(kind, df) ==
    LET path == ArchivePath(market_area, type, kind)
    IN  /\ archives'[path].exists
        /\ Len(DataRows(archives'[path])) = Len(DataRows(archives[path])) + Len(df)
        /\ EndsWith(DataRows(archives'[path]), ArchivedRows(df))
        /\ \A p \in DOMAIN archives : p # path => archives'[p] = archives[p]

\* C34: a ledger entry of download() with outcome Success is written only
\* when the tables of the attempt have been appended, in that attempt, to
\* every archive of the family; every outcome written is Success or Error.
C34_SuccessImpliesArchived ==
    /\ []((pc = "track" /\ success_indicator = "Success")
          => \A t \in FamilyTables :
                /\ t[2] # <<>>
                /\ archives[ArchivePath(market_area, type, t[1])].exists
                /\ EndsWith(DataRows(archives[ArchivePath(market_area, type, t[1])]),
                            ArchivedRows(t[2])))
    /\ [][((pc = "track")
           => (/\ Len(DataRows(tracking_file')) = Len(DataRows(tracking_file)) + 1
               /\ tracking_file'.rows[2][Len(tracking_file'.rows[1])] = success_indicator
               /\ success_indicator \in {"Success", "Error"}))
          /\
          ((InAttempt /\ pc' = "track" /\ success_indicator' = "Success")
           => (/\ pc \in {"write_base_peak", "write"}
               /\ Appends(IF pc = "write" THEN "" ELSE "base_peak",
                          IF pc = "write" THEN loc.data_df ELSE loc.base_peak_data_df)))
          /\
          ((pc = "write_hours" /\ pc' = "write_base_peak")
           => Appends("hours", loc.hours_data_df))
          /\
          ((InAttempt /\ pc' = "write_base_peak") => pc = "write_hours")]_vars

\* a dayahead or intraday attempt stands before its ledger entry with outcome
\* Success, its two hourly rows and its base/peak row appended to archives
\* that held rows before
C34_BothArchivesGrown ==
    /\ type \in {"dayahead", "intraday"}
    /\ pc = "track"
    /\ success_indicator = "Success"
    /\ Len(loc.hours_data_df) = 2
    /\ Len(DataRows(archives[ArchivePath(market_area, type, "hours")])) > 2
    /\ Len(DataRows(archives[ArchivePath(market_area, type, "base_peak")])) > 1

\* the rows without the last n
WithoutLast(rows, n) == SubSeq(rows, 1, Len(rows) - n)

\* C35: an attempt of download() whose ledger outcome is Error leaves every
\* archive as it was before the attempt: a step of an attempt that changes an
\* archive ends the attempt with Success, except the append to the hours
\* archive of dayahead/intraday, whose rows are gone again from the hours
\* archive when the write of the base/peak archive fails; the step that writes
\* an Error entry changes no archive.
C35_ErrorLeavesArchives ==
    [][((InAttempt /\ archives' # archives /\ pc # "write_hours")
        => (pc' = "track" /\ success_indicator' = "Success"))
       /\
       ((pc = "write_base_peak" /\ success_indicator' = "Error")
        => LET path == ArchivePath(market_area, type, "hours")
           IN  DataRows(archives'[path])
                  = WithoutLast(DataRows(archives[path]), Len(loc.hours_data_df)))
       /\
       ((pc = "track" /\ success_indicator = "Error")
        => (/\ archives' = archives
            /\ tracking_file'.rows[2][Len(tracking_file'.rows[1])] = "Error"))]_vars

\* the ledger entries the run has added so far, the latest first
NewEntries ==
    SubSeq(DataRows(tracking_file), 1,
           Len(DataRows(tracking_file)) - Len(DataRows(ledger_at_start)))

\* the number of entries the run has added with the outcome
Added(outcome) ==
    Cardinality({i \in 1..Len(NewEntries) : NewEntries[i][Len(NewEntries[i])] = outcome})

\* C36: the total that download() returns is the number of ledger entries with
\* outcome Error the run has added, which is the number of attempted
\* combinations that did not end in Success; a skipped combination is not
\* counted.
C36_ErrorCount ==
    /\ [](pc \in {"loop", "done"}
          => (/\ total_error_count = Added("Error")
              /\ Added("Error") = attempted - Added("Success")))
    /\ [][(pc = "loop" /\ pc' = "loop") => total_error_count' = total_error_count]_vars

\* a run has returned after an attempt that ended in Success and one that ended
\* in Error
C36_MixedRunReturned ==
    /\ pc = "done"
    /\ attempted = 2
    /\ total_error_count = 1
    /\ Added("Success") = 1

\* the hourly table of the combination, built from the last-update text, the
\* hours and the numeric rows the locals hold
FreshHourlyTable ==
    clean_df(DataFrame(AssembleRows(DataMeta, loc.hours, loc.hourly_data).val,
                       columns_hourly).val)

\* the base/peak table of the combination, built from the last-update text
\* and the base/peak pair the locals hold
FreshBasePeakTable ==
    clean_df(DataFrame(<<DataMeta \o <<loc.baseload, loc.peakload>>>>,
                       columns_base_peak).val)

\* C37: every row download_data appends is built from the page, the
\* last-update text, the hours and the values obtained for the combination the
\* loops stand at: a step that changes an archive appends the table built from
\* the locals, and each of the locals it reads has been assigned since the
\* loops came to the combination.
C37_NoStaleData ==
    [][((archives'[archive_hourly_data_filepath] # archives[archive_hourly_data_filepath])
        => (/\ pc = "merge_hourly"
            /\ {"soup", "last_update", "hours", "hourly_data"} \subseteq loc.fresh
            /\ loc.last_update = loc.soup.val
            /\ archives'[archive_hourly_data_filepath]
                 = AppendToExcel(archives[archive_hourly_data_filepath],
                                 FreshHourlyTable, columns_hourly)))
       /\
       ((archives'[archive_base_peak_data_filepath]
            # archives[archive_base_peak_data_filepath])
        => (/\ pc = "merge_base_peak"
            /\ {"soup", "last_update", "base_peak"} \subseteq loc.fresh
            /\ loc.last_update = loc.soup.val
            /\ archives'[archive_base_peak_data_filepath]
                 = AppendToExcel(archives[archive_base_peak_data_filepath],
                                 FreshBasePeakTable, columns_base_peak)))]_vars

\* the fetch of a later combination of a run has failed while the locals still
\* hold the page and the values of an earlier combination, and nothing has been
\* appended for it
C37_StaleValuesLeft ==
    /\ pc = "track"
    /\ idx > 1
    /\ {"soup", "last_update", "hours", "hourly_data", "base_peak"} \subseteq loc.bound
    /\ "soup" \notin loc.fresh
    /\ ~InHourlyArchive
    /\ ~InBasePeakArchive

\* the page of the combination has been fetched and its last-update text
\* accepted
PageObtained ==
    /\ {"soup", "last_update"} \subseteq loc.fresh
    /\ Len(loc.last_update) >= 10

\* C38: in download_data, after a successful fetch and last-update
\* extraction, a failure of the hourly part (hours, numeric rows, assembly,
\* plausibility) leaves the base/peak part to run and to append its row, a
\* failure of the base/peak part leaves the hourly archive and the hourly
\* outcome as they are, and the tracking entry shows the two outcomes.
C38_SiblingIndependence ==
    [][((PageObtained /\ pc \in {"hours", "volume"})
        => (pc' \in {"volume", "merge_hourly", "base_peak"}
            /\ loc'.base_peak_sucess = loc.base_peak_sucess))
       /\
       ((PageObtained /\ pc = "merge_hourly"
            /\ archives' = archives /\ loc.num_hours_records # "Error"
            /\ ~plausibility_checks(FreshHourlyTable))
        => (pc' = "base_peak" /\ loc'.num_hours_records = "Error"
               /\ loc'.base_peak_sucess = loc.base_peak_sucess))
       /\
       ((PageObtained /\ pc = "base_peak" /\ ~loc.archive_check_base_peak)
        => pc' = "merge_base_peak")
       /\
       ((PageObtained /\ pc \in {"base_peak", "merge_base_peak"})
        => (/\ pc' \in {"merge_base_peak", "track"}
            /\ loc'.num_hours_records = loc.num_hours_records
            /\ archives'[archive_hourly_data_filepath]
                  = archives[archive_hourly_data_filepath]))
       /\
       ((PageObtained /\ pc = "track")
        => (/\ tracking_file'.rows[2][8] = Written(loc.num_hours_records)
            /\ tracking_file'.rows[2][9] = Written(loc.base_peak_sucess)))]_vars

\* the key of a continuous request: market area, delivery date, trading
\* modality and product, without trading date and sub-modality
ContinuousKey(c) ==
    <<CleanMarketArea("continuous", c.market_area), StrfTime(c.delivery_date),
      "Continuous", c.value>>

\* C39: the skip decision of download() for a continuous combination depends
\* only on market area, delivery date, trading modality and product: it is
\* the same for every request with that key whatever its trading date, and
\* once a request with the key has succeeded a request with the key is
\* skipped.
C39_ContinuousKey ==
    [][(type = "continuous" /\ pc = "loop" /\ idx <= Len(combos))
       => (/\ (pc' = "loop" /\ idx' = idx + 1)
                 <=> HasNonErrorEntry(ledger_at_start, ContinuousKey(combos[idx]))
           /\ HasEntry(tracking_file, ContinuousKey(combos[idx]), {"Success"})
                 => (pc' = "loop" /\ idx' = idx + 1))]_vars

====
